---------------------------- MODULE Spec2Model ----------------------------
(***************************************************************************)
(* Model of standard-tooling's command-method generator                    *)
(* (src/standard_tooling/bin/generate_commands.py): the pattern            *)
(* classifier, the marker-based file patcher, the consistency checker and  *)
(* the command-line entry point.                                           *)
(*                                                                         *)
(* Text is modelled as TLA+ strings: Len, SubSeq and \o act on them as     *)
(* Python's len, slicing and + act on str.                                 *)
(***************************************************************************)
EXTENDS Integers, Sequences, FiniteSets, TLC

VARIABLES
    \* --- classifier (classify_command) ---
    verb,            \* first token of the command key
    mqsc_qualifier,  \* second token of the command key
    entry,           \* the metadata record of the command (a JSON object)
    cspec,           \* the CommandSpec returned, or NoSpec before the call
    \* --- patcher / checker (update_file, _check_target) ---
    language,        \* the language whose marker pair is used
    generated,       \* the generated block handed to update_file / _check_target
    file,            \* content of the target file
    writes,          \* number of write_text calls made on the target file
    calls,           \* number of calls made so far
    last,            \* record of the most recent call
    prev,            \* record of the call before it
    \* --- a run of main ---
    pc,              \* the step of main that runs next
    args,            \* the parsed arguments (of the generator: other than --language)
    doc,             \* the mapping-data document on disk
    target_exists,   \* whether the target path names a file
    specs,           \* the list load_commands returned
    exit,            \* the exit status of the run, -1 while it runs
    out,             \* what the run reported
    trace,           \* the steps the run has taken
    \* --- the repository finalize_repo and prepare_release work on ---
    env,             \* what the run finds and cannot change: profile, PATH, network
    current,         \* the branch checked out
    branches,        \* the local branches
    origin,          \* the branches on origin
    tree,            \* the working tree: "clean" or "dirty"
    eternal,         \* finalize_repo: the protected branches
    pending,         \* finalize_repo: the merged branches the loop has yet to visit
    deleted,         \* finalize_repo: the branches it reports as deleted
    git_calls,       \* the commands run through git.run, gh and subprocess.run
    printed          \* the lines printed

clsVars == <<verb, mqsc_qualifier, entry, cspec>>
patchVars == <<language, generated, file, writes, calls, last, prev>>
mainVars == <<pc, args, doc, target_exists, specs, exit, out, trace>>
gitVars == <<env, current, branches, origin, tree, eternal, pending, deleted,
             git_calls, printed>>
vars == <<verb, mqsc_qualifier, entry, cspec,
          language, generated, file, writes, calls, last, prev,
          pc, args, doc, target_exists, specs, exit, out, trace,
          env, current, branches, origin, tree, eternal, pending, deleted,
          git_calls, printed>>

---------------------------------------------------------------------------
(* JSON values, as json.loads hands them to the program.                   *)

JStr(s) == [t |-> "str", s |-> s, n |-> 0, b |-> FALSE]
JInt(n) == [t |-> "int", s |-> "", n |-> n, b |-> FALSE]
JBool(b) == [t |-> "bool", s |-> "", n |-> 0, b |-> b]
JNull == [t |-> "null", s |-> "", n |-> 0, b |-> FALSE]

\* Python's None for an optional string, and a present string.
None == <<>>
Some(s) == <<s>>

\* dict.get(key) / dict.get(key, default): JNull stands for Python's None.
Has(d, k) == k \in DOMAIN d
Get(d, k) == IF Has(d, k) THEN d[k] ELSE JNull

\* Python truthiness of a JSON scalar (bool(x)).
Truthy(v) ==
    CASE v.t = "bool" -> v.b
      [] v.t = "int" -> v.n # 0
      [] v.t = "str" -> v.s # ""
      [] OTHER -> FALSE

---------------------------------------------------------------------------
(* Text helpers.                                                           *)

UPPER == "ABCDEFGHIJKLMNOPQRSTUVWXYZ"
LOWER == "abcdefghijklmnopqrstuvwxyz"
DIGITS == "0123456789"

\* The backquote character of the generated doc comments. A string of this
\* module cannot hold that character; the form feed, which no template or
\* input uses, stands for it.
BQ == "\f"

Char(s, i) == SubSeq(s, i, i)

\* str.lower() of one character.
LowerChar(c) ==
    IF \E i \in 1..Len(UPPER) : Char(UPPER, i) = c
    THEN Char(LOWER, CHOOSE i \in 1..Len(UPPER) : Char(UPPER, i) = c)
    ELSE c

\* Python slices s[:i] and s[i:], i counted from 0.
Upto(s, i) == SubSeq(s, 1, i)
From(s, i) == SubSeq(s, i + 1, Len(s))

\* The indexes >= i (from 0) at which sub occurs in s.
Occurrences(s, sub, i) ==
    {k \in i..(Len(s) - Len(sub)) : SubSeq(s, k + 1, k + Len(sub)) = sub}

\* The lowest index >= i at which sub occurs in s, or -1.
FindFrom(s, sub, i) ==
    LET hits == Occurrences(s, sub, i)
    IN IF hits = {} THEN -1 ELSE CHOOSE k \in hits : \A j \in hits : k <= j

\* The printable ASCII characters in code-point order, from the space (32).
ASCII ==
    " !\"#$%&'()*+,-./0123456789:;<=>?@ABCDEFGHIJKLMNOPQRSTUVWXYZ[\\]^_"
    \o BQ \o "abcdefghijklmnopqrstuvwxyz{|}~"

\* ord(c)
Ord(c) ==
    IF c = "\t" THEN 9
    ELSE IF c = "\n" THEN 10
    ELSE IF c = "\r" THEN 13
    ELSE 31 + (CHOOSE i \in 1..Len(ASCII) : Char(ASCII, i) = c)

RECURSIVE StrLess(_, _)
\* a < b on str
StrLess(a, b) ==
    IF a = "" THEN b # ""
    ELSE IF b = "" THEN FALSE
    ELSE IF Char(a, 1) = Char(b, 1)
         THEN StrLess(SubSeq(a, 2, Len(a)), SubSeq(b, 2, Len(b)))
    ELSE Ord(Char(a, 1)) < Ord(Char(b, 1))

RECURSIVE SortedStrs(_)
\* sorted(S) for a set of str
SortedStrs(S) ==
    IF S = {} THEN <<>>
    ELSE LET m == CHOOSE x \in S : \A y \in S : x = y \/ StrLess(x, y)
         IN <<m>> \o SortedStrs(S \ {m})

RECURSIVE Lower(_)
\* str.lower()
Lower(s) ==
    IF s = "" THEN ""
    ELSE LowerChar(Char(s, 1)) \o Lower(SubSeq(s, 2, Len(s)))

RECURSIVE NatStr(_)
\* str(n) for a natural number
NatStr(n) ==
    IF n < 10 THEN Char(DIGITS, n + 1)
    ELSE NatStr(n \div 10) \o Char(DIGITS, (n % 10) + 1)

\* str(v) of a JSON scalar that is not None
PyStr(v) ==
    CASE v.t = "str" -> v.s
      [] v.t = "int" -> IF v.n < 0 THEN "-" \o NatStr(-v.n) ELSE NatStr(v.n)
      [] v.t = "bool" -> IF v.b THEN "True" ELSE "False"
      [] OTHER -> "None"

---------------------------------------------------------------------------
(* classify_command                                                        *)

NO_NAME_QUALIFIERS_NoStatus == {"QMGR", "CMDSERV"}

NO_NAME_QUALIFIERS == {"QMGR", "CMDSERV", "QMSTATUS"}

CommandSpec(v, mq, q, p, nd) ==
    [verb |-> v, mqsc_qualifier |-> mq, qualifier |-> q, pattern |-> p,
     name_default |-> nd]

\* The display qualifier without the isinstance test: str() of whatever the
\* entry holds.
QualifierOf_NoTypeTest(mq, e) ==
    IF Has(e, "qualifier") THEN PyStr(e["qualifier"]) ELSE Lower(mq)

\* The display qualifier: the entry's "qualifier" when it is a str, else the
\* lower-cased token.
QualifierOf(mq, e) ==
    LET q == IF Has(e, "qualifier") THEN e["qualifier"] ELSE JStr(Lower(mq))
    IN IF q.t = "str" THEN q.s ELSE Lower(mq)

NameDefaultOf(e) ==
    LET nd == Get(e, "name_default")
    IN IF nd.t # "null" THEN Some(PyStr(nd)) ELSE None

\* classify_command with the name_required test placed before the DISPLAY test.
classify_command_RequiredFirst(v, mq, e) ==
    LET explicit_pattern == Get(e, "pattern")
        name_required == IF Has(e, "name_required") THEN e["name_required"]
                         ELSE JBool(FALSE)
        pattern ==
            IF explicit_pattern = JStr("singleton") THEN "singleton"
            ELSE IF Truthy(name_required) THEN "required_name"
            ELSE IF v = "DISPLAY" /\ mq \notin NO_NAME_QUALIFIERS THEN "list"
            ELSE IF mq \in NO_NAME_QUALIFIERS THEN "no_name"
            ELSE "optional_name"
    IN CommandSpec(v, mq, QualifierOf(mq, e), pattern, NameDefaultOf(e))

\* classify_command taking any explicit pattern that is one of the five tags
\* at its word.
classify_command_AnyExplicitPattern(v, mq, e) ==
    LET explicit_pattern == Get(e, "pattern")
        name_required == IF Has(e, "name_required") THEN e["name_required"]
                         ELSE JBool(FALSE)
        tagged == explicit_pattern.t = "str" /\ explicit_pattern.s \in
                      {"singleton", "list", "required_name", "no_name", "optional_name"}
        pattern ==
            IF tagged THEN explicit_pattern.s
            ELSE IF v = "DISPLAY" /\ mq \notin NO_NAME_QUALIFIERS THEN "list"
            ELSE IF Truthy(name_required) THEN "required_name"
            ELSE IF mq \in NO_NAME_QUALIFIERS THEN "no_name"
            ELSE "optional_name"
    IN CommandSpec(v, mq, QualifierOf(mq, e), pattern, NameDefaultOf(e))

classify_command(v, mq, e) ==
    LET explicit_pattern == Get(e, "pattern")
        name_required == IF Has(e, "name_required") THEN e["name_required"]
                         ELSE JBool(FALSE)
        pattern ==
            IF explicit_pattern = JStr("singleton") THEN "singleton"
            ELSE IF v = "DISPLAY" /\ mq \notin NO_NAME_QUALIFIERS THEN "list"
            ELSE IF Truthy(name_required) THEN "required_name"
            ELSE IF mq \in NO_NAME_QUALIFIERS THEN "no_name"
            ELSE "optional_name"
    IN CommandSpec(v, mq, QualifierOf(mq, e), pattern, NameDefaultOf(e))

---------------------------------------------------------------------------
(* load_commands                                                           *)

\* The mapping-data document: kind is "missing" (no such file), "invalid"
\* (text json.loads rejects), "array" (JSON whose top level is not an
\* object) or "object"; commands is "absent", "other" (present and not an
\* object) or "dict", and then table lists its members in document order,
\* each a key with its value (an object, or not).
Doc(kind, commands, table) == [kind |-> kind, commands |-> commands, table |-> table]
Item(key, is_dict, e) == [key |-> key, is_dict |-> is_dict, entry |-> e]

\* commands_raw.keys() and commands_raw[key]
KeysOf(table) == {table[i].key : i \in 1..Len(table)}
ItemOf(table, key) == table[CHOOSE i \in 1..Len(table) : table[i].key = key]

\* command_key.split(" ", 1)
Split1(key) ==
    LET k == FindFrom(key, " ", 0)
    IN IF k = -1 THEN <<key>> ELSE <<Upto(key, k), From(key, k + 1)>>

RECURSIVE LoadLoop(_, _)
\* The loop of load_commands over the sorted keys.
LoadLoop(keys, table) ==
    IF Len(keys) = 0 THEN <<>>
    ELSE LET command_key == Head(keys)
             parts == Split1(command_key)
             item == ItemOf(table, command_key)
             rest == LoadLoop(Tail(keys), table)
         IN IF Len(parts) # 2 THEN rest
            ELSE IF ~item.is_dict THEN rest
            ELSE <<classify_command(parts[1], parts[2], item.entry)>> \o rest

\* load_commands without sorted(): the keys are taken in document order.
load_commands_DocumentOrder(d) ==
    IF d.kind = "invalid" THEN [raised |-> TRUE, error |-> "JSONDecodeError", specs |-> <<>>]
    ELSE IF d.kind = "array" THEN [raised |-> TRUE, error |-> "AttributeError", specs |-> <<>>]
    ELSE IF d.commands # "dict" THEN [raised |-> FALSE, error |-> "", specs |-> <<>>]
    ELSE [raised |-> FALSE, error |-> "",
          specs |-> LoadLoop([i \in 1..Len(d.table) |-> d.table[i].key], d.table)]

\* load_commands on a document that is a file: the exception raised, if any,
\* and the specs returned.
load_commands(d) ==
    IF d.kind = "invalid" THEN [raised |-> TRUE, error |-> "JSONDecodeError", specs |-> <<>>]
    ELSE IF d.kind = "array" THEN [raised |-> TRUE, error |-> "AttributeError", specs |-> <<>>]
    ELSE IF d.commands # "dict" THEN [raised |-> FALSE, error |-> "", specs |-> <<>>]
    ELSE [raised |-> FALSE, error |-> "",
          specs |-> LoadLoop(SortedStrs(KeysOf(d.table)), d.table)]

---------------------------------------------------------------------------
(* Inputs of the classifier.                                               *)

Verbs == {"DISPLAY", "ALTER", "DEFINE"}
QualifierTokens == {"QMGR", "CMDSERV", "QMSTATUS", "QUEUE", "AUTHINFO"}

\* The values each metadata field takes; Absent means the key is missing.
Absent == [t |-> "absent", s |-> "", n |-> 0, b |-> FALSE]
QualifierValues == {Absent, JStr("queue"), JInt(42), JNull}
PatternValues ==
    {Absent, JStr("singleton"), JStr("list"), JStr("no_name"),
     JStr("required_name"), JStr("optional_name"), JStr("bogus")}
NameRequiredValues == {Absent, JBool(TRUE), JBool(FALSE)}
NameDefaultValues == {Absent, JStr("*"), JNull}

\* The dict with the given field values, absent keys left out.
MkEntry(q, p, nr, nd) ==
    LET all == [k \in {"qualifier", "pattern", "name_required", "name_default"} |->
                   CASE k = "qualifier" -> q
                     [] k = "pattern" -> p
                     [] k = "name_required" -> nr
                     [] OTHER -> nd]
        keys == {k \in DOMAIN all : all[k] # Absent}
    IN [k \in keys |-> all[k]]

Entries ==
    {MkEntry(q, p, nr, nd) : q \in QualifierValues, p \in PatternValues,
                             nr \in NameRequiredValues, nd \in NameDefaultValues}

NoSpec == CommandSpec("", "", "", "none", None)
NoEntry == MkEntry(Absent, Absent, Absent, Absent)
NoCall == [op |-> "none", result |-> "none", before |-> "", writes0 |-> 0]

\* The patcher's variables when the patcher is not under study.
PatchIdle ==
    /\ language = "python"
    /\ generated = ""
    /\ file = ""
    /\ writes = 0
    /\ calls = 0
    /\ last = NoCall
    /\ prev = NoCall

MainIdle ==
    /\ pc = "idle"
    /\ args = [target |-> "none", check |-> FALSE, mapping_pages_dir |-> "none"]
    /\ doc = Doc("missing", "absent", <<>>)
    /\ target_exists = FALSE
    /\ specs = <<>>
    /\ exit = -1
    /\ out = ""
    /\ trace = <<>>

\* The repository's variables when neither finalize_repo nor prepare_release
\* is under study.
GitIdle ==
    /\ env = <<>>
    /\ current = ""
    /\ branches = {}
    /\ origin = {}
    /\ tree = "clean"
    /\ eternal = {}
    /\ pending = <<>>
    /\ deleted = <<>>
    /\ git_calls = <<>>
    /\ printed = <<>>

ClsIdle ==
    /\ verb = ""
    /\ mqsc_qualifier = ""
    /\ entry = NoEntry
    /\ cspec = NoSpec

InitClassify ==
    /\ verb \in Verbs
    /\ mqsc_qualifier \in QualifierTokens
    /\ entry \in Entries
    /\ cspec = NoSpec
    /\ PatchIdle
    /\ MainIdle
    /\ GitIdle

\* One call of classify_command on the chosen triple.
Classify ==
    /\ cspec = NoSpec
    /\ cspec' = classify_command(verb, mqsc_qualifier, entry)
    /\ UNCHANGED <<verb, mqsc_qualifier, entry>>
    /\ UNCHANGED patchVars
    /\ UNCHANGED mainVars
    /\ UNCHANGED gitVars

NextClassify == Classify

SpecClassify == InitClassify /\ [][NextClassify]_vars

---------------------------------------------------------------------------
(* Code generation: text helpers.                                          *)

RECURSIVE Join(_, _)
\* sep.join(parts)
Join(parts, sep) ==
    IF Len(parts) = 0 THEN ""
    ELSE IF Len(parts) = 1 THEN parts[1]
    ELSE parts[1] \o sep \o Join(Tail(parts), sep)

\* str.upper() of one character.
UpperChar(c) ==
    IF \E i \in 1..Len(LOWER) : Char(LOWER, i) = c
    THEN Char(UPPER, CHOOSE i \in 1..Len(LOWER) : Char(LOWER, i) = c)
    ELSE c

\* str.capitalize()
Capitalize(s) ==
    IF s = "" THEN "" ELSE UpperChar(Char(s, 1)) \o Lower(SubSeq(s, 2, Len(s)))

RECURSIVE SplitAll(_, _)
\* s.split(sep) for a one-character sep
SplitAll(s, sep) ==
    LET k == FindFrom(s, sep, 0)
    IN IF k = -1 THEN <<s>>
       ELSE <<Upto(s, k)>> \o SplitAll(From(s, k + 1), sep)

\* [f(p) for p in parts]
MapSeq(f(_), parts) == [i \in 1..Len(parts) |-> f(parts[i])]

\* Truth value of cmd.name_default (None and "" are false).
HasNameDefault(cmd) == cmd.name_default # None /\ cmd.name_default[1] # ""
NameDefault(cmd) == cmd.name_default[1]

\* f"{cmd.verb.lower()}_{cmd.mqsc_qualifier.lower()}"
SnakeName(cmd) == Lower(cmd.verb) \o "_" \o Lower(cmd.mqsc_qualifier)
\* f"{cmd.verb} {cmd.mqsc_qualifier}"
CommandLabel(cmd) == cmd.verb \o " " \o cmd.mqsc_qualifier

\* lines.append(x) when cond holds
When(cond, ls) == IF cond THEN ls ELSE <<>>

---------------------------------------------------------------------------
(* Python generation.                                                      *)

MQSC_REF_URL == "https://www.ibm.com/docs/en/ibm-mq/9.4?topic=reference-mqsc-commands"
PYTHON_DOCS_BASE_URL == "https://wphillipmoore.github.io/mq-rest-admin-python"

python_docstring(cmd, mapping_pages) ==
    LET lines ==
            <<"        \"\"\"Execute the MQSC " \o BQ \o BQ \o CommandLabel(cmd) \o BQ \o BQ \o " command.",
              "",
              "        See " \o BQ \o "MQSC reference <" \o MQSC_REF_URL \o ">" \o BQ \o "__",
              "        for command details.">>
            \o When(cmd.qualifier \in mapping_pages,
                    <<"        See " \o BQ \o cmd.qualifier \o " attribute mappings"
                      \o " <" \o PYTHON_DOCS_BASE_URL \o "/mappings/" \o cmd.qualifier
                      \o ".html>" \o BQ \o "__.">>)
            \o <<"",
                 "        Args:">>
            \o When(cmd.pattern \in {"list", "optional_name", "required_name"},
                    <<"            name: "
                      \o (IF cmd.pattern = "list" THEN "Object name or generic pattern."
                          ELSE "Object name.")>>)
            \o <<"            request_parameters: Request attributes as a dict. Mapped",
                 "                from " \o BQ \o BQ \o "snake_case" \o BQ \o BQ \o " when mapping is enabled.",
                 "            response_parameters: Response attributes to return.",
                 "                Defaults to " \o BQ \o BQ \o "[\"all\"]" \o BQ \o BQ \o ".">>
            \o When(cmd.pattern = "list",
                    <<"            where: Filter expression (e.g. " \o BQ \o BQ \o "\"current_depth GT 100\"" \o BQ \o BQ \o ").",
                      "                The keyword is mapped from " \o BQ \o BQ \o "snake_case" \o BQ \o BQ \o " when mapping",
                      "                is enabled.">>)
            \o <<"">>
            \o (IF cmd.pattern = "singleton"
                THEN <<"        Returns:",
                       "            Parameter dict, or " \o BQ \o BQ \o "None" \o BQ \o BQ \o ".">>
                ELSE IF cmd.pattern = "list"
                THEN <<"        Returns:",
                       "            List of parameter dicts, one per matching object. Empty",
                       "            list if no objects match.">>
                ELSE <<"        Raises:",
                       "            MQRESTCommandError: If the command fails.">>)
            \o <<"",
                 "        \"\"\"">>
    IN Join(lines, "\n")

python_method(cmd, mapping_pages) ==
    LET method_name == SnakeName(cmd)
        sig_lines ==
            <<"    def " \o method_name \o "(", "        self,">>
            \o (IF cmd.pattern = "required_name" THEN <<"        name: str,">>
                ELSE IF cmd.pattern \in {"list", "optional_name"}
                THEN <<"        name: str | None = None,">>
                ELSE <<>>)
            \o <<"        request_parameters: Mapping[str, object] | None = None,",
                 "        response_parameters: Sequence[str] | None = None,">>
            \o When(cmd.pattern = "list", <<"        where: str | None = None,">>)
            \o (IF cmd.pattern = "singleton"
                THEN <<"    ) -> dict[str, object] | None:">>
                ELSE IF cmd.pattern = "list"
                THEN <<"    ) -> list[dict[str, object]]:">>
                ELSE <<"    ) -> None:">>)
        docstring == python_docstring(cmd, mapping_pages)
        body_lines ==
            (IF cmd.pattern = "list" THEN <<"        return self._mqsc_command(">>
             ELSE IF cmd.pattern = "singleton"
             THEN <<"        objects = self._mqsc_command(">>
             ELSE <<"        self._mqsc_command(">>)
            \o <<"            command=\"" \o cmd.verb \o "\",",
                 "            mqsc_qualifier=\"" \o cmd.mqsc_qualifier \o "\",">>
            \o (IF cmd.pattern = "list" /\ HasNameDefault(cmd)
                THEN <<"            name=name or \"" \o NameDefault(cmd) \o "\",">>
                ELSE IF cmd.pattern \in {"required_name", "optional_name", "list"}
                THEN <<"            name=name,">>
                ELSE <<"            name=None,">>)
            \o <<"            request_parameters=request_parameters,",
                 "            response_parameters=response_parameters,">>
            \o When(cmd.pattern = "list", <<"            where=where,">>)
            \o <<"        )">>
            \o When(cmd.pattern = "singleton",
                    <<"        if objects:",
                      "            return objects[0]",
                      "        return None">>)
    IN Join(sig_lines \o <<docstring>> \o body_lines, "\n")

generate_python(spec_list, mapping_pages) ==
    LET m(cmd) == python_method(cmd, mapping_pages)
    IN Join(MapSeq(m, spec_list), "\n\n")

---------------------------------------------------------------------------
(* Ruby generation.                                                        *)

ruby_method(cmd) ==
    LET method_name == SnakeName(cmd)
        command_label == CommandLabel(cmd)
        name_expr ==
            IF cmd.pattern = "list" /\ HasNameDefault(cmd)
            THEN "name || '" \o NameDefault(cmd) \o "'"
            ELSE IF cmd.pattern \in {"required_name", "optional_name", "list"}
            THEN "name"
            ELSE "nil"
        call_lines ==
            <<"            command: '" \o cmd.verb \o "', mqsc_qualifier: '"
              \o cmd.mqsc_qualifier \o "',",
              "            name: " \o name_expr \o ", request_parameters: request_parameters,">>
        lines ==
            <<"        # Execute the MQSC +" \o command_label \o "+ command.",
              "        #">>
            \o (IF cmd.pattern = "required_name"
                THEN <<"        # @param name [String] the object name">>
                ELSE IF cmd.pattern \in {"list", "optional_name"}
                THEN (IF cmd.pattern = "list" /\ HasNameDefault(cmd)
                      THEN <<"        # @param name [String, nil] object name or pattern,"
                             \o " defaults to +\"" \o NameDefault(cmd) \o "\"+">>
                      ELSE <<"        # @param name [String, nil] object name">>)
                ELSE <<>>)
            \o <<"        # @param request_parameters [Hash{String => Object}, nil] request attributes",
                 "        # @param response_parameters [Array<String>, nil] response attributes to return">>
            \o When(cmd.pattern = "list",
                    <<"        # @param where [String, nil] filter expression">>)
            \o (IF cmd.pattern = "singleton"
                THEN <<"        # @return [Hash{String => Object}, nil] parameter hash, or nil if empty">>
                ELSE IF cmd.pattern = "list"
                THEN <<"        # @return [Array<Hash{String => Object}>] parameter hashes">>
                ELSE <<"        # @return [nil]">>)
            \o <<"        # @raise [CommandError] if the MQSC command fails",
                 "        # @raise [MappingError] if attribute mapping fails in strict mode">>
            \o (IF cmd.pattern = "required_name"
                THEN <<"        def " \o method_name
                       \o "(name, request_parameters: nil, response_parameters: nil)">>
                ELSE IF cmd.pattern \in {"no_name", "singleton"}
                THEN <<"        def " \o method_name
                       \o "(request_parameters: nil, response_parameters: nil)">>
                ELSE IF cmd.pattern = "list"
                THEN <<"        def " \o method_name \o "(name: nil, request_parameters: nil,"
                       \o " response_parameters: nil, where: nil)">>
                ELSE <<"        def " \o method_name \o "(name: nil, request_parameters: nil,"
                       \o " response_parameters: nil)">>)
            \o (IF cmd.pattern = "list"
                THEN <<"          mqsc_command(">> \o call_lines
                     \o <<"            response_parameters: response_parameters, where: where",
                          "          )">>
                ELSE IF cmd.pattern = "singleton"
                THEN <<"          objects = mqsc_command(">> \o call_lines
                     \o <<"            response_parameters: response_parameters",
                          "          )",
                          "          objects.empty? ? nil : objects[0]">>
                ELSE <<"          mqsc_command(">> \o call_lines
                     \o <<"            response_parameters: response_parameters",
                          "          )",
                          "          nil">>)
            \o <<"        end">>
    IN Join(lines, "\n")

\* generate_ruby with the name_default applied to optional_name specs as well:
\* such a spec is emitted the way a list spec is.
generate_ruby_DefaultForOptional(spec_list) ==
    Join(MapSeq(LAMBDA cmd :
                    ruby_method(IF cmd.pattern = "optional_name" /\ HasNameDefault(cmd)
                                THEN [cmd EXCEPT !.pattern = "list"] ELSE cmd),
                spec_list), "\n\n")

generate_ruby(spec_list) == Join(MapSeq(ruby_method, spec_list), "\n\n")

---------------------------------------------------------------------------
(* Java generation.                                                        *)

\* verb_qualifier in camelCase
java_method_name(cmd) ==
    LET parts == SplitAll(SnakeName(cmd), "_")
    IN parts[1] \o Join(MapSeq(Capitalize, Tail(parts)), "")

\* cmd.verb[0] raises IndexError on an empty verb.
java_raises(cmd) == cmd.verb = ""

java_method(cmd) ==
    LET method_name == java_method_name(cmd)
        command_label == CommandLabel(cmd)
        article == IF Char(cmd.verb, 1) \in {"A", "E", "I", "O", "U"} THEN "an" ELSE "a"
        call == "mqscCommand(\"" \o cmd.verb \o "\", \"" \o cmd.mqsc_qualifier \o "\","
        two_params ==
            "      @Nullable Map<String, Object> requestParameters,"
            \o " @Nullable List<String> responseParameters) {"
        named_params ==
            <<"      @Nullable String name,",
              "      @Nullable Map<String, Object> requestParameters,",
              "      @Nullable List<String> responseParameters) {">>
        lines ==
            <<"  /** Executes " \o article \o " " \o command_label \o " MQSC command. */">>
            \o (IF cmd.pattern = "singleton"
                THEN <<"  public @Nullable Map<String, Object> " \o method_name \o "(",
                       two_params,
                       "    List<Map<String, Object>> objects =",
                       "        " \o call
                       \o " null, requestParameters, responseParameters, null);",
                       "    return objects.isEmpty() ? null : objects.get(0);">>
                ELSE IF cmd.pattern = "list"
                THEN <<"  public List<Map<String, Object>> " \o method_name \o "(",
                       "      @Nullable String name,",
                       "      @Nullable Map<String, Object> requestParameters,",
                       "      @Nullable List<String> responseParameters,",
                       "      @Nullable String where) {">>
                     \o (IF HasNameDefault(cmd)
                         THEN <<"    return " \o call
                                \o " name != null ? name : \"" \o NameDefault(cmd) \o "\","
                                \o " requestParameters, responseParameters, where);">>
                         ELSE <<"    return " \o call
                                \o " name, requestParameters, responseParameters, where);">>)
                ELSE IF cmd.pattern = "required_name"
                THEN <<"  public void " \o method_name \o "(">>
                     \o named_params
                     \o <<"    Objects.requireNonNull(name, \"name\");",
                          "    " \o call
                          \o " name, requestParameters, responseParameters, null);">>
                ELSE IF cmd.pattern = "no_name"
                THEN <<"  public void " \o method_name \o "(",
                       two_params,
                       "    " \o call
                       \o " null, requestParameters, responseParameters, null);">>
                ELSE <<"  public void " \o method_name \o "(">>
                     \o named_params
                     \o <<"    " \o call
                          \o " name, requestParameters, responseParameters, null);">>)
            \o <<"  }">>
    IN Join(lines, "\n")

\* generate_java with every singleton spec emitted as a list.
generate_java_SingletonAsList(spec_list) ==
    Join(MapSeq(LAMBDA cmd : java_method([cmd EXCEPT !.pattern =
                    IF cmd.pattern = "singleton" THEN "list" ELSE cmd.pattern]),
                spec_list), "\n\n")

generate_java(spec_list) == Join(MapSeq(java_method, spec_list), "\n\n")

---------------------------------------------------------------------------
(* Go generation.                                                          *)

\* verb_qualifier in PascalCase
go_method_name(cmd) ==
    Join(MapSeq(Capitalize, SplitAll(SnakeName(cmd), "_")), "")

go_method(cmd) ==
    LET method_name == go_method_name(cmd)
        command_label == CommandLabel(cmd)
        doc_line == "// " \o method_name \o " executes the " \o command_label \o " command."
        func == "func (session *Session) " \o method_name \o "(ctx context.Context,"
        lines ==
            IF cmd.pattern = "singleton"
            THEN <<doc_line,
                   func \o " opts ...CommandOption) (map[string]any, error) {",
                   "\tconfig := buildCommandConfig(opts)",
                   "\tobjects, err := session.mqscCommand(ctx, \"" \o cmd.verb \o "\","
                   \o " \"" \o cmd.mqsc_qualifier \o "\", nil,"
                   \o " config.requestParameters, config.responseParameters, nil, true)",
                   "\tif err != nil {",
                   "\t\treturn nil, err",
                   "\t}",
                   "\tif len(objects) == 0 {",
                   "\t\treturn nil, nil",
                   "\t}",
                   "\treturn objects[0], nil",
                   "}">>
            ELSE IF cmd.pattern = "list" /\ HasNameDefault(cmd)
            THEN <<doc_line \o " Name defaults to \"" \o NameDefault(cmd) \o "\" if empty.",
                   func \o " name string, opts ...CommandOption) ([]map[string]any, error) {",
                   "\tconfig := buildCommandConfig(opts)",
                   "\tdisplayName := name",
                   "\tif displayName == \"\" {",
                   "\t\tdisplayName = \"" \o NameDefault(cmd) \o "\"",
                   "\t}",
                   "\treturn session.mqscCommand(ctx, \"" \o cmd.verb \o "\","
                   \o " \"" \o cmd.mqsc_qualifier \o "\", &displayName,"
                   \o " config.requestParameters, config.responseParameters,"
                   \o " config.where, true)",
                   "}">>
            ELSE IF cmd.pattern = "list"
            THEN <<doc_line,
                   func \o " name string, opts ...CommandOption) ([]map[string]any, error) {",
                   "\treturn session.displayList(ctx, \"" \o cmd.mqsc_qualifier
                   \o "\", name, opts)",
                   "}">>
            ELSE IF cmd.pattern = "required_name"
            THEN <<doc_line \o " Name is required.",
                   func \o " name string, opts ...CommandOption) error {",
                   "\treturn session.voidCommand(ctx, \"" \o cmd.verb \o "\","
                   \o " \"" \o cmd.mqsc_qualifier \o "\", &name, opts)",
                   "}">>
            ELSE IF cmd.pattern = "no_name"
            THEN <<doc_line,
                   func \o " opts ...CommandOption) error {",
                   "\treturn session.voidCommand(ctx, \"" \o cmd.verb \o "\", \""
                   \o cmd.mqsc_qualifier \o "\", nil, opts)",
                   "}">>
            ELSE <<doc_line,
                   func \o " name string, opts ...CommandOption) error {",
                   "\treturn session.voidCommandOptionalName(ctx, \"" \o cmd.verb \o "\","
                   \o " \"" \o cmd.mqsc_qualifier \o "\", name, opts)",
                   "}">>
    IN Join(lines, "\n")

\* generate_go with the name_default of every spec left out.
generate_go_NoDefault(spec_list) ==
    Join(MapSeq(LAMBDA cmd : go_method([cmd EXCEPT !.name_default = None]),
                spec_list), "\n\n")

generate_go(spec_list) == Join(MapSeq(go_method, spec_list), "\n\n")

---------------------------------------------------------------------------
(* Rust generation.                                                        *)

rust_method(cmd) ==
    LET method_name == SnakeName(cmd)
        command_label == CommandLabel(cmd)
        head == <<"    pub fn " \o method_name \o "(",
                  "        &mut self,">>
        params == <<"        request_parameters: Option<&HashMap<String, Value>>,",
                    "        response_parameters: Option<&[&str]>,">>
        \* self.mqsc_command( ... ) with the given name argument, where argument
        \* and closing line
        call(name_arg, where_arg, close) ==
            <<"        self.mqsc_command(",
              "            \"" \o cmd.verb \o "\",",
              "            \"" \o cmd.mqsc_qualifier \o "\",",
              "            " \o name_arg \o ",",
              "            request_parameters,",
              "            response_parameters,",
              "            " \o where_arg \o ",",
              "        )" \o close>>
        lines ==
            <<"    /// Execute the MQSC " \o BQ \o command_label \o BQ \o " command.">>
            \o (IF cmd.pattern = "singleton"
                THEN head \o params
                     \o <<"    ) -> Result<Option<HashMap<String, Value>>> {",
                          "        let objects = self.mqsc_command(",
                          "            \"" \o cmd.verb \o "\",",
                          "            \"" \o cmd.mqsc_qualifier \o "\",",
                          "            None,",
                          "            request_parameters,",
                          "            response_parameters,",
                          "            None,",
                          "        )?;",
                          "        Ok(objects.into_iter().next())",
                          "    }">>
                ELSE IF cmd.pattern = "list"
                THEN head
                     \o <<"        name: Option<&str>,">>
                     \o params
                     \o <<"        where_clause: Option<&str>,",
                          "    ) -> Result<Vec<HashMap<String, Value>>> {">>
                     \o (IF HasNameDefault(cmd)
                         THEN call("Some(name.unwrap_or(\"" \o NameDefault(cmd) \o "\"))",
                                   "where_clause", "")
                         ELSE call("name", "where_clause", ""))
                     \o <<"    }">>
                ELSE IF cmd.pattern = "required_name"
                THEN head
                     \o <<"        name: &str,">>
                     \o params
                     \o <<"    ) -> Result<()> {">>
                     \o call("Some(name)", "None", "?;")
                     \o <<"        Ok(())",
                          "    }">>
                ELSE IF cmd.pattern = "no_name"
                THEN head
                     \o params
                     \o <<"    ) -> Result<()> {">>
                     \o call("None", "None", "?;")
                     \o <<"        Ok(())",
                          "    }">>
                ELSE head
                     \o <<"        name: Option<&str>,">>
                     \o params
                     \o <<"    ) -> Result<()> {">>
                     \o call("name", "None", "?;")
                     \o <<"        Ok(())",
                          "    }">>)
    IN Join(lines, "\n")

\* generate_rust with every spec emitted as if its pattern were optional_name.
generate_rust_AllOptionalName(spec_list) ==
    Join(MapSeq(LAMBDA cmd : rust_method([cmd EXCEPT !.pattern = "optional_name"]),
                spec_list), "\n\n")

generate_rust(spec_list) == Join(MapSeq(rust_method, spec_list), "\n\n")

---------------------------------------------------------------------------
(* Language dispatch.                                                      *)

LANGUAGES == {"python", "ruby", "java", "go", "rust"}

\* generate that falls back to python for a language it does not know.
generate_FallsBackToPython(l, spec_list, mapping_pages) ==
    [raised |-> FALSE, error |-> "", text |-> generate_python(spec_list, mapping_pages)]

\* generate(language, spec_list, mapping_pages): the block, or the ValueError
\* "Unsupported language" raised.
generate(l, spec_list, mapping_pages) ==
    IF l = "python"
    THEN [raised |-> FALSE, error |-> "", text |-> generate_python(spec_list, mapping_pages)]
    ELSE IF l = "ruby"
    THEN [raised |-> FALSE, error |-> "", text |-> generate_ruby(spec_list)]
    ELSE IF l = "java"
    THEN IF \E i \in 1..Len(spec_list) : java_raises(spec_list[i])
         THEN [raised |-> TRUE, error |-> "IndexError", text |-> ""]
         ELSE [raised |-> FALSE, error |-> "", text |-> generate_java(spec_list)]
    ELSE IF l = "go"
    THEN [raised |-> FALSE, error |-> "", text |-> generate_go(spec_list)]
    ELSE IF l = "rust"
    THEN [raised |-> FALSE, error |-> "", text |-> generate_rust(spec_list)]
    ELSE [raised |-> TRUE, error |-> "ValueError: Unsupported language: " \o l, text |-> ""]

---------------------------------------------------------------------------
(* Marker-based file update: update_file and _check_target.                *)

\* MARKERS[language] = <<begin_marker, end_marker>>
MARKERS ==
    [l \in LANGUAGES |->
        CASE l = "python" -> <<"    # BEGIN GENERATED MQSC METHODS",
                               "    # END GENERATED MQSC METHODS">>
          [] l = "ruby" -> <<"        # BEGIN GENERATED MQSC METHODS",
                             "        # END GENERATED MQSC METHODS">>
          [] l = "java" -> <<"  // BEGIN GENERATED MQSC METHODS",
                             "  // END GENERATED MQSC METHODS">>
          [] l = "go" -> <<"// BEGIN GENERATED MQSC METHODS",
                           "// END GENERATED MQSC METHODS">>
          [] OTHER -> <<"    // BEGIN GENERATED MQSC METHODS",
                        "    // END GENERATED MQSC METHODS">>]

\* A lookup that answers 0 for a marker that is absent.
Index_AbsentIsZero(s, sub) ==
    LET k == FindFrom(s, sub, 0) IN IF k = -1 THEN 0 ELSE k

\* str.index(sub): the index of the first occurrence; -1 stands for the
\* ValueError it raises when there is none.
Index(s, sub) == FindFrom(s, sub, 0)

\* new_source with the tail taken from end_idx instead of past the end marker.
NewSource_TailFromEndIdx(source, begin_marker, end_marker, begin_idx, end_idx, gen) ==
    Upto(source, begin_idx) \o begin_marker \o "\n" \o gen \o "\n\n"
        \o end_marker \o From(source, end_idx)

\* new_source of update_file.
NewSource(source, begin_marker, end_marker, begin_idx, end_idx, gen) ==
    Upto(source, begin_idx) \o begin_marker \o "\n" \o gen \o "\n\n"
        \o end_marker \o From(source, end_idx + Len(end_marker))

\* expected with one newline before the end marker.
Expected_OneNewline(source, begin_marker, end_marker, begin_idx, end_idx, gen) ==
    Upto(source, begin_idx) \o begin_marker \o "\n" \o gen \o "\n"
        \o end_marker \o From(source, end_idx + Len(end_marker))

\* expected of _check_target.
Expected(source, begin_marker, end_marker, begin_idx, end_idx, gen) ==
    Upto(source, begin_idx) \o begin_marker \o "\n" \o gen \o "\n\n"
        \o end_marker \o From(source, end_idx + Len(end_marker))

\* update_file that writes new_source whether or not it differs.
update_file_AlwaysWrites(source, l, gen) ==
    LET begin_marker == MARKERS[l][1]
        end_marker == MARKERS[l][2]
        begin_idx == Index(source, begin_marker)
        end_idx == Index(source, end_marker)
    IN IF begin_idx = -1 \/ end_idx = -1
       THEN [raised |-> TRUE, changed |-> FALSE, wrote |-> FALSE, content |-> source]
       ELSE LET new_source == NewSource(source, begin_marker, end_marker,
                                        begin_idx, end_idx, gen)
            IN [raised |-> FALSE, changed |-> new_source # source,
                wrote |-> TRUE, content |-> new_source]

\* update_file with write_text ahead of the marker lookup: the file is
\* emptied before source.index raises.
update_file_WritesBeforeLookup(source, l, gen) ==
    LET begin_marker == MARKERS[l][1]
        end_marker == MARKERS[l][2]
        begin_idx == Index(source, begin_marker)
        end_idx == Index(source, end_marker)
    IN IF begin_idx = -1 \/ end_idx = -1
       THEN [raised |-> TRUE, changed |-> FALSE, wrote |-> TRUE, content |-> ""]
       ELSE LET new_source == NewSource(source, begin_marker, end_marker,
                                        begin_idx, end_idx, gen)
            IN [raised |-> FALSE, changed |-> new_source # source,
                wrote |-> new_source # source, content |-> new_source]

\* update_file on a target holding source: whether source.index raised, the
\* value returned, whether write_text was called, and the target's content
\* after the call.
update_file(source, l, gen) ==
    LET begin_marker == MARKERS[l][1]
        end_marker == MARKERS[l][2]
        begin_idx == Index(source, begin_marker)
        end_idx == Index(source, end_marker)
    IN IF begin_idx = -1 \/ end_idx = -1
       THEN [raised |-> TRUE, changed |-> FALSE, wrote |-> FALSE, content |-> source]
       ELSE LET new_source == NewSource(source, begin_marker, end_marker,
                                        begin_idx, end_idx, gen)
                changed == new_source # source
            IN [raised |-> FALSE, changed |-> changed, wrote |-> changed,
                content |-> IF changed THEN new_source ELSE source]

\* _check_target that reports up to date whatever the file holds.
check_target_AlwaysUpToDate(source, l, gen) ==
    LET begin_idx == Index(source, MARKERS[l][1])
        end_idx == Index(source, MARKERS[l][2])
    IN IF begin_idx = -1 \/ end_idx = -1
       THEN [raised |-> TRUE, status |-> 1]
       ELSE [raised |-> FALSE, status |-> 0]

\* _check_target on a target holding source: whether source.index raised and
\* the status returned (0 up to date, 1 out of date).
check_target(source, l, gen) ==
    LET begin_marker == MARKERS[l][1]
        end_marker == MARKERS[l][2]
        begin_idx == Index(source, begin_marker)
        end_idx == Index(source, end_marker)
    IN IF begin_idx = -1 \/ end_idx = -1
       THEN [raised |-> TRUE, status |-> 1]
       ELSE LET expected == Expected(source, begin_marker, end_marker,
                                     begin_idx, end_idx, gen)
            IN [raised |-> FALSE, status |-> IF source = expected THEN 0 ELSE 1]

---------------------------------------------------------------------------
(* The patcher and the checker called on one target file.                  *)

MaxChunks == 3
MaxCalls == 3

\* The pieces target files are assembled from.
Chunks(l) == {MARKERS[l][1], MARKERS[l][2], "\n"}

RECURSIVE FilesOf(_, _)
\* The files of at most n chunks.
FilesOf(l, n) ==
    IF n = 0 THEN {""}
    ELSE LET shorter == FilesOf(l, n - 1)
         IN shorter \cup {f \o c : f \in shorter, c \in Chunks(l)}

\* Generated blocks: one method, and a block whose text holds the end marker
\* (a command key such as "DISPLAY " + end marker puts it in the doc comment).
GeneratedBlocks(l) == {"    def display_qmgr(", "DISPLAY " \o MARKERS[l][2]}

\* What a hand edit leaves between the markers.
StaleRegion == "\n    # stale\n"

InitPatch ==
    /\ language \in LANGUAGES
    /\ generated \in GeneratedBlocks(language)
    /\ file \in FilesOf(language, MaxChunks)
    /\ writes = 0
    /\ calls = 0
    /\ last = NoCall
    /\ prev = NoCall
    /\ ClsIdle
    /\ MainIdle
    /\ GitIdle

\* update_file(target, language, generated)
UpdateFile ==
    /\ calls < MaxCalls
    /\ LET r == update_file(file, language, generated)
       IN /\ file' = r.content
          /\ writes' = IF r.wrote THEN writes + 1 ELSE writes
          /\ last' = [op |-> "update",
                      result |-> IF r.raised THEN "ValueError"
                                 ELSE IF r.changed THEN "True" ELSE "False",
                      before |-> file, writes0 |-> writes]
    /\ prev' = last
    /\ calls' = calls + 1
    /\ UNCHANGED <<language, generated>>
    /\ UNCHANGED clsVars
    /\ UNCHANGED mainVars
    /\ UNCHANGED gitVars

\* _check_target(target, language, generated)
CheckTarget ==
    /\ calls < MaxCalls
    /\ LET r == check_target(file, language, generated)
       IN last' = [op |-> "check",
                   result |-> IF r.raised THEN "ValueError"
                              ELSE IF r.status = 0 THEN "up to date"
                              ELSE "out of date",
                   before |-> file, writes0 |-> writes]
    /\ prev' = last
    /\ calls' = calls + 1
    /\ UNCHANGED <<language, generated, file, writes>>
    /\ UNCHANGED clsVars
    /\ UNCHANGED mainVars
    /\ UNCHANGED gitVars

\* Somebody edits the target: the text between the begin marker and the end
\* marker that follows it is replaced by stale content.
EditRegion ==
    /\ calls < MaxCalls
    /\ LET begin_marker == MARKERS[language][1]
           end_marker == MARKERS[language][2]
           begin_idx == Index(file, begin_marker)
           region_start == begin_idx + Len(begin_marker)
           region_end == FindFrom(file, end_marker, region_start)
       IN /\ begin_idx # -1
          /\ region_end # -1
          /\ file' = Upto(file, region_start) \o StaleRegion \o From(file, region_end)
    /\ last' = [op |-> "edit", result |-> "none", before |-> file, writes0 |-> writes]
    /\ prev' = last
    /\ calls' = calls + 1
    /\ UNCHANGED <<language, generated, writes>>
    /\ UNCHANGED clsVars
    /\ UNCHANGED mainVars
    /\ UNCHANGED gitVars

NextPatch == UpdateFile \/ CheckTarget \/ EditRegion

SpecPatch == InitPatch /\ [][NextPatch]_vars

---------------------------------------------------------------------------
(* main: one run after another of the generator on one file system.        *)

MaxRuns == 2

\* Entries of the command table, as the tests write them.
E_Queue == MkEntry(JStr("queue"), JStr("list"), Absent, JStr("*"))
E_Qmgr == MkEntry(JStr("qmgr"), Absent, Absent, Absent)
E_QmgrSingleton == MkEntry(JStr("qmgr"), JStr("singleton"), Absent, Absent)
E_Qlocal == MkEntry(JStr("queue"), Absent, JBool(TRUE), Absent)
E_Authinfo == MkEntry(JStr("authinfo"), Absent, Absent, Absent)
E_Bad == MkEntry(JStr("bad"), Absent, Absent, Absent)

\* A table of well-formed entries, one per pattern, in document order.
MinimalTable ==
    <<Item("ALTER AUTHINFO", TRUE, E_Authinfo),
      Item("ALTER QMGR", TRUE, E_Qmgr),
      Item("DISPLAY QUEUE", TRUE, E_Queue),
      Item("DEFINE QLOCAL", TRUE, E_Qlocal),
      Item("DISPLAY QMGR", TRUE, E_QmgrSingleton)>>

\* A table with a key of one token and a value that is not an object.
PartialTable ==
    <<Item("ALTER AUTHINFO", TRUE, E_Authinfo),
      Item("BADENTRY", TRUE, E_Bad),
      Item("ALTER CHANNEL", FALSE, NoEntry)>>

\* A table whose only key starts with the space: its verb is empty.
EmptyVerbTable == <<Item(" QMGR", TRUE, E_Qmgr)>>

Docs ==
    {Doc("missing", "absent", <<>>),
     Doc("invalid", "absent", <<>>),
     Doc("array", "absent", <<>>),
     Doc("object", "absent", <<>>),
     Doc("object", "other", <<>>),
     Doc("object", "dict", <<>>),
     Doc("object", "dict", MinimalTable),
     Doc("object", "dict", PartialTable),
     Doc("object", "dict", EmptyVerbTable)}

\* The --language values: the five choices and one that is not a choice.
LanguageArgs == LANGUAGES \cup {"fortran"}

\* The marker pair target files are written with.
MarkersIn(l) == IF l \in LANGUAGES THEN MARKERS[l] ELSE MARKERS["python"]

\* Target files: no markers, an empty scaffold, a stale region, and the end
\* marker ahead of the begin marker.
TargetFiles(l) ==
    {"class Mixin:\n    pass\n",
     "class Mixin:\n" \o MarkersIn(l)[1] \o "\n" \o MarkersIn(l)[2] \o "\n    pass\n",
     MarkersIn(l)[1] \o StaleRegion \o MarkersIn(l)[2] \o "\n",
     MarkersIn(l)[2] \o "\n" \o MarkersIn(l)[1] \o "\n"}

\* The files of the directory --mapping-pages-dir names: stem and suffix.
PagesDir ==
    {[stem |-> "queue", suffix |-> ".md"],
     [stem |-> "index", suffix |-> ".md"],
     [stem |-> "notes", suffix |-> ".txt"]}

\* _resolve_mapping_pages(mapping_pages_dir)
resolve_mapping_pages(mapping_pages_dir) ==
    IF mapping_pages_dir = "none" THEN {}
    ELSE {p.stem : p \in {q \in PagesDir : q.suffix = ".md" /\ q.stem # "index"}}

RunStart(content, nwrites) ==
    [op |-> "main", result |-> "running", before |-> content, writes0 |-> nwrites]

Init ==
    /\ language \in LanguageArgs
    /\ args \in [target : {"none", "path"}, check : BOOLEAN,
                 mapping_pages_dir : {"none", "pages"}]
    /\ doc \in Docs
    /\ target_exists \in BOOLEAN
    /\ file \in (IF target_exists THEN TargetFiles(language) ELSE {""})
    /\ generated = ""
    /\ writes = 0
    /\ calls = 1
    /\ last = RunStart(file, 0)
    /\ prev = NoCall
    /\ pc = "parse_args"
    /\ specs = <<>>
    /\ exit = -1
    /\ out = ""
    /\ trace = <<>>
    /\ ClsIdle
    /\ GitIdle

\* The run ends with the given status and report.
Finish(status, report) ==
    /\ pc' = "done"
    /\ exit' = status
    /\ out' = report

\* args = parse_args(argv): argparse exits with status 2 on a --language
\* that is not one of the choices.
ParseArgs ==
    /\ pc = "parse_args"
    /\ trace' = Append(trace, "parse_args")
    /\ IF language \in LANGUAGES
       THEN pc' = "is_file" /\ UNCHANGED <<exit, out>>
       ELSE Finish(2, "invalid choice")
    /\ UNCHANGED <<args, doc, target_exists, specs>>
    /\ UNCHANGED <<language, generated, file, writes, calls, last, prev>>
    /\ UNCHANGED clsVars
    /\ UNCHANGED gitVars

\* if not args.mapping_data.is_file(): ... return 1
IsFile ==
    /\ pc = "is_file"
    /\ trace' = Append(trace, "is_file")
    /\ IF doc.kind = "missing"
       THEN Finish(1, "not found")
       ELSE pc' = "load_commands" /\ UNCHANGED <<exit, out>>
    /\ UNCHANGED <<args, doc, target_exists, specs>>
    /\ UNCHANGED <<language, generated, file, writes, calls, last, prev>>
    /\ UNCHANGED clsVars
    /\ UNCHANGED gitVars

\* specs = load_commands(args.mapping_data); an exception that escapes main
\* ends the process with status 1.
LoadCommands ==
    /\ pc = "load_commands"
    /\ trace' = Append(trace, "load_commands")
    /\ LET r == load_commands(doc)
       IN IF r.raised
          THEN Finish(1, r.error) /\ UNCHANGED specs
          ELSE pc' = "generate" /\ specs' = r.specs /\ UNCHANGED <<exit, out>>
    /\ UNCHANGED <<args, doc, target_exists>>
    /\ UNCHANGED <<language, generated, file, writes, calls, last, prev>>
    /\ UNCHANGED clsVars
    /\ UNCHANGED gitVars

\* mapping_pages = _resolve_mapping_pages(...);
\* generated = generate(args.language, specs, mapping_pages=mapping_pages)
Generate ==
    /\ pc = "generate"
    /\ trace' = Append(trace, "generate")
    /\ LET mapping_pages == resolve_mapping_pages(args.mapping_pages_dir)
           g == generate(language, specs, mapping_pages)
       IN IF g.raised
          THEN Finish(1, "IndexError") /\ UNCHANGED generated
          ELSE pc' = "output" /\ generated' = g.text /\ UNCHANGED <<exit, out>>
    /\ UNCHANGED <<args, doc, target_exists, specs>>
    /\ UNCHANGED <<language, file, writes, calls, last, prev>>
    /\ UNCHANGED clsVars
    /\ UNCHANGED gitVars

\* return _check_target(args.target, args.language, generated)
MainCheck ==
    /\ pc = "output"
    /\ args.target # "none" /\ args.check
    /\ trace' = Append(trace, "_check_target")
    /\ IF ~target_exists
       THEN Finish(1, "FileNotFoundError")
       ELSE LET r == check_target(file, language, generated)
            IN IF r.raised THEN Finish(1, "ValueError")
               ELSE Finish(r.status, IF r.status = 0 THEN "up to date" ELSE "out of date")
    /\ UNCHANGED <<args, doc, target_exists, specs>>
    /\ UNCHANGED <<language, generated, file, writes, calls, last, prev>>
    /\ UNCHANGED clsVars
    /\ UNCHANGED gitVars

\* changed = update_file(args.target, args.language, generated); ... return 0
MainUpdate ==
    /\ pc = "output"
    /\ args.target # "none" /\ ~args.check
    /\ trace' = Append(trace, "update_file")
    /\ IF ~target_exists
       THEN Finish(1, "FileNotFoundError") /\ UNCHANGED <<file, writes>>
       ELSE LET r == update_file(file, language, generated)
            IN /\ file' = r.content
               /\ writes' = IF r.wrote THEN writes + 1 ELSE writes
               /\ IF r.raised THEN Finish(1, "ValueError")
                  ELSE Finish(0, IF r.changed THEN "updated" ELSE "unchanged")
    /\ UNCHANGED <<args, doc, target_exists, specs>>
    /\ UNCHANGED <<language, generated, calls, last, prev>>
    /\ UNCHANGED clsVars
    /\ UNCHANGED gitVars

\* main with the args.check test placed outside the args.target test: a
\* --check run without a target reports drift instead of printing.
MainPrint_CheckWithoutTarget ==
    /\ pc = "output"
    /\ args.target = "none"
    /\ IF args.check
       THEN trace' = Append(trace, "_check_target") /\ Finish(1, "out of date")
       ELSE trace' = Append(trace, "print") /\ Finish(0, "generated")
    /\ UNCHANGED <<args, doc, target_exists, specs>>
    /\ UNCHANGED <<language, generated, file, writes, calls, last, prev>>
    /\ UNCHANGED clsVars
    /\ UNCHANGED gitVars

\* print(generated); return 0
MainPrint ==
    /\ pc = "output"
    /\ args.target = "none"
    /\ trace' = Append(trace, "print")
    /\ Finish(0, "generated")
    /\ UNCHANGED <<args, doc, target_exists, specs>>
    /\ UNCHANGED <<language, generated, file, writes, calls, last, prev>>
    /\ UNCHANGED clsVars
    /\ UNCHANGED gitVars

\* The generator is run again on the same files, with or without --check.
Rerun ==
    /\ pc = "done"
    /\ calls < MaxRuns
    /\ calls' = calls + 1
    /\ \E c \in BOOLEAN : args' = [args EXCEPT !.check = c]
    /\ prev' = [last EXCEPT !.result = out]
    /\ last' = RunStart(file, writes)
    /\ pc' = "parse_args"
    /\ specs' = <<>>
    /\ generated' = ""
    /\ exit' = -1
    /\ out' = ""
    /\ trace' = <<>>
    /\ UNCHANGED <<doc, target_exists, language, file, writes>>
    /\ UNCHANGED clsVars
    /\ UNCHANGED gitVars

Next ==
    \/ ParseArgs
    \/ IsFile
    \/ LoadCommands
    \/ Generate
    \/ MainCheck
    \/ MainUpdate
    \/ MainPrint
    \/ Rerun

Spec == Init /\ [][Next]_vars

---------------------------------------------------------------------------
(* load_commands on documents of up to MaxEntries members.                 *)

MaxEntries == 3

\* Keys of the command table: of two tokens, of one, of three, with two
\* spaces between the tokens, and starting with the space.
LoadKeys ==
    {"ALTER QMGR", "DISPLAY QUEUE", "BADENTRY", "DISPLAY QUEUE EXTRA",
     "DISPLAY  QUEUE", " QMGR"}

\* The values of a member: an object with fields, an empty object, or a value
\* that is not an object (a string).
LoadValues ==
    {Item("", TRUE, E_Queue), Item("", TRUE, NoEntry), Item("", FALSE, NoEntry)}

\* The tables of n members with distinct keys, in every document order.
TablesOf(n) ==
    {t \in [1..n -> {Item(k, v.is_dict, v.entry) : k \in LoadKeys, v \in LoadValues}] :
        \A i, j \in 1..n : i # j => t[i].key # t[j].key}

LoadDocs ==
    {Doc("invalid", "absent", <<>>), Doc("array", "absent", <<>>),
     Doc("object", "absent", <<>>), Doc("object", "other", <<>>)}
    \cup {Doc("object", "dict", t) : t \in UNION {TablesOf(n) : n \in 0..MaxEntries}}

InitLoad ==
    /\ doc \in LoadDocs
    /\ pc = "load"
    /\ specs = <<>>
    /\ out = ""
    /\ exit = -1
    /\ trace = <<>>
    /\ args = [target |-> "none", check |-> FALSE, mapping_pages_dir |-> "none"]
    /\ target_exists = FALSE
    /\ PatchIdle
    /\ ClsIdle
    /\ GitIdle

\* One call of load_commands on the document.
Load ==
    /\ pc = "load"
    /\ LET r == load_commands(doc)
       IN /\ specs' = r.specs
          /\ out' = IF r.raised THEN r.error ELSE "returned"
    /\ pc' = "loaded"
    /\ UNCHANGED <<args, doc, target_exists, exit, trace>>
    /\ UNCHANGED patchVars
    /\ UNCHANGED clsVars
    /\ UNCHANGED gitVars

NextLoad == Load

SpecLoad == InitLoad /\ [][NextLoad]_vars

---------------------------------------------------------------------------
(* generate on the specs load_commands returns, for tables of up to        *)
(* MaxSpecs members.                                                       *)

MaxSpecs == 2

\* Keys whose verbs and tokens reach every rule of the classifier, and one
\* whose verb is empty.
EmitKeys == {"ALTER QMGR", "DISPLAY QUEUE", "DEFINE QLOCAL", " QMGR"}

\* Entries: a list pattern with name_default "*", the same with name_default
\* "", none of the fields, the singleton mark, and name_required.
E_QueueEmptyDefault == MkEntry(JStr("queue"), JStr("list"), Absent, JStr(""))
EmitEntries == {E_Queue, E_QueueEmptyDefault, NoEntry, E_QmgrSingleton, E_Qlocal}

\* The tables of n members, keys ascending (load_commands sorts them anyway).
EmitTablesOf(n) ==
    {t \in [1..n -> {Item(k, TRUE, e) : k \in EmitKeys, e \in EmitEntries}] :
        \A i, j \in 1..n : i < j => StrLess(t[i].key, t[j].key)}

EmitDocs == {Doc("object", "dict", t) : t \in UNION {EmitTablesOf(n) : n \in 0..MaxSpecs}}

InitEmit ==
    /\ doc \in EmitDocs
    /\ language \in LanguageArgs
    /\ args \in [target : {"none"}, check : {FALSE}, mapping_pages_dir : {"none", "pages"}]
    /\ pc = "load"
    /\ specs = <<>>
    /\ out = ""
    /\ exit = -1
    /\ trace = <<>>
    /\ target_exists = FALSE
    /\ generated = ""
    /\ file = ""
    /\ writes = 0
    /\ calls = 0
    /\ last = NoCall
    /\ prev = NoCall
    /\ ClsIdle
    /\ GitIdle

\* One call of generate on the loaded specs.
Emit ==
    /\ pc = "loaded"
    /\ LET g == generate(language, specs, resolve_mapping_pages(args.mapping_pages_dir))
       IN /\ generated' = g.text
          /\ out' = IF g.raised THEN g.error ELSE "generated"
    /\ pc' = "emitted"
    /\ UNCHANGED <<args, doc, target_exists, specs, exit, trace>>
    /\ UNCHANGED <<language, file, writes, calls, last, prev>>
    /\ UNCHANGED clsVars
    /\ UNCHANGED gitVars

NextEmit ==
    \/ Load
    \/ Emit

SpecEmit == InitEmit /\ [][NextEmit]_vars

---------------------------------------------------------------------------
(* One emitter on one spec: an emitter is called with a single CommandSpec. *)

\* The specs an emitter is handed: CommandSpec is a plain dataclass, so every
\* combination of verb, token, pattern and name_default can be built.
MethodVerbs == {"DISPLAY", "ALTER", ""}
MethodTokens == {"QMGR", "QUEUE", "AUTHINFO"}
MethodPatterns == {"singleton", "list", "required_name", "no_name", "optional_name"}
MethodDefaults == {None, Some("*"), Some(""), Some("SYSTEM.*")}
MethodSpecs ==
    {CommandSpec(v, mq, Lower(mq), p, nd) :
        v \in MethodVerbs, mq \in MethodTokens, p \in MethodPatterns,
        nd \in MethodDefaults}

InitMethod ==
    /\ language \in LANGUAGES
    /\ cspec \in MethodSpecs
    /\ args \in [target : {"none"}, check : {FALSE}, mapping_pages_dir : {"none", "pages"}]
    /\ pc = "method"
    /\ verb = ""
    /\ mqsc_qualifier = ""
    /\ entry = NoEntry
    /\ doc = Doc("missing", "absent", <<>>)
    /\ target_exists = FALSE
    /\ specs = <<>>
    /\ exit = -1
    /\ out = ""
    /\ trace = <<>>
    /\ generated = ""
    /\ file = ""
    /\ writes = 0
    /\ calls = 0
    /\ last = NoCall
    /\ prev = NoCall
    /\ GitIdle

\* generate(language, [cspec]): the block of a single spec is its method.
EmitMethod ==
    /\ pc = "method"
    /\ LET g == generate(language, <<cspec>>, resolve_mapping_pages(args.mapping_pages_dir))
       IN /\ generated' = g.text
          /\ out' = IF g.raised THEN g.error ELSE "generated"
    /\ pc' = "method_emitted"
    /\ UNCHANGED <<args, doc, target_exists, specs, exit, trace>>
    /\ UNCHANGED <<language, file, writes, calls, last, prev>>
    /\ UNCHANGED clsVars
    /\ UNCHANGED gitVars

NextMethod == EmitMethod

SpecMethod == InitMethod /\ [][NextMethod]_vars

---------------------------------------------------------------------------
(* finalize_repo                                                           *)

ETERNAL_BY_MODEL ==
    [m \in {"docs-single-branch", "library-release", "application-promotion"} |->
        CASE m = "docs-single-branch" -> {"develop"}
          [] m = "library-release" -> {"develop", "main"}
          [] OTHER -> {"develop", "release", "main"}]

\* read_profile(root).branching_model, "" when the file is missing or has no
\* such field.
ModelOf(profile) == IF profile = "missing" THEN "" ELSE profile

\* The local branches of the repositories looked at, the values of
\* --target-branch, and what docs/repository-standards.md may say.
BranchNames == {"develop", "main", "release", "gh-pages", "feature/x"}
Unmerged == "wip"
TargetBranches == {"develop", "main", "feature/x"}
Profiles ==
    {"missing", "", "docs-single-branch", "library-release", "application-promotion",
     "unknown-model"}

\* _run without the dry_run test: the command always goes to git.run.
RunOf_IgnoresDryRun(cmd, dry_run) == <<cmd>>

\* _run(args, dry_run=...): the command handed to git.run, or none.
RunOf(cmd, dry_run) == IF dry_run THEN <<>> ELSE <<cmd>>
\* _run(args, dry_run=...): the line printed, or none.
DryLineOf(cmd, dry_run) ==
    IF dry_run THEN <<"  [dry-run] git " \o Join(cmd, " ")>> ELSE <<>>

\* git.merged_branches(target): the local branches merged into the target,
\* in the order git lists them.
merged_branches(local, merged) == SortedStrs(local \cap merged)

InitFinalize ==
    /\ args \in [target_branch : TargetBranches, dry_run : BOOLEAN]
    /\ env \in [profile : Profiles,
                 remote : {"ok", "unreachable", "diverged"},
                 target_exists : BOOLEAN,
                 merged : SUBSET BranchNames]
    /\ IF env.target_exists
       THEN args.target_branch \in env.merged
       ELSE env.merged = {}
    /\ current \in (IF env.target_exists THEN {args.target_branch, "feature/x"}
                     ELSE {Unmerged})
    /\ branches = env.merged \cup {current, Unmerged}
    /\ origin = {}
    /\ tree = "clean"
    /\ eternal = {}
    /\ pending = <<>>
    /\ deleted = <<>>
    /\ git_calls = <<>>
    /\ printed = <<>>
    /\ pc = "fr_profile"
    /\ exit = -1
    /\ out = ""
    /\ trace = <<>>
    /\ doc = Doc("missing", "absent", <<>>)
    /\ target_exists = FALSE
    /\ specs = <<>>
    /\ PatchIdle
    /\ ClsIdle

\* Everything finalize_repo leaves alone but the steps' own variables.
FrFrame ==
    /\ UNCHANGED <<args, doc, target_exists, specs, env, origin, tree>>
    /\ UNCHANGED patchVars
    /\ UNCHANGED clsVars

\* model = read_profile(root).branching_model; the eternal set; an
\* unrecognized model returns 1.
FrProfile ==
    /\ pc = "fr_profile"
    /\ trace' = Append(trace, "profile")
    /\ LET model == ModelOf(env.profile)
       IN IF model \in DOMAIN ETERNAL_BY_MODEL
          THEN /\ eternal' = {"gh-pages"} \cup ETERNAL_BY_MODEL[model]
               /\ pc' = "fr_checkout"
               /\ UNCHANGED <<exit, out, printed>>
          ELSE IF model = ""
          THEN /\ eternal' = {"gh-pages", "develop", "main"}
               /\ printed' = Append(printed, "WARNING: branching_model not found")
               /\ pc' = "fr_checkout"
               /\ UNCHANGED <<exit, out>>
          ELSE /\ eternal' = {"gh-pages"}
               /\ printed' = Append(printed, "ERROR: unrecognized branching_model")
               /\ Finish(1, "unrecognized")
    /\ UNCHANGED <<current, branches, pending, deleted, git_calls>>
    /\ FrFrame

\* current = git.current_branch(); if current != args.target_branch:
\* _run(["checkout", target]); git.run raises when there is no such branch.
FrCheckout ==
    /\ pc = "fr_checkout"
    /\ trace' = Append(trace, "checkout")
    /\ LET cmd == <<"checkout", args.target_branch>>
       IN IF current # args.target_branch
          THEN /\ git_calls' = git_calls \o RunOf(cmd, args.dry_run)
               /\ printed' = printed \o DryLineOf(cmd, args.dry_run)
               /\ IF args.dry_run
                  THEN pc' = "fr_fetch" /\ UNCHANGED <<current, exit, out>>
                  ELSE IF env.target_exists
                  THEN pc' = "fr_fetch" /\ current' = args.target_branch
                       /\ UNCHANGED <<exit, out>>
                  ELSE Finish(1, "CalledProcessError") /\ UNCHANGED current
          ELSE /\ pc' = "fr_fetch"
               /\ UNCHANGED <<git_calls, printed, current, exit, out>>
    /\ UNCHANGED <<branches, eternal, pending, deleted>>
    /\ FrFrame

\* _run(["fetch", "origin", target]); git.run raises when origin cannot be
\* reached.
FrFetch ==
    /\ pc = "fr_fetch"
    /\ trace' = Append(trace, "fetch")
    /\ LET cmd == <<"fetch", "origin", args.target_branch>>
       IN /\ git_calls' = git_calls \o RunOf(cmd, args.dry_run)
          /\ printed' = printed \o DryLineOf(cmd, args.dry_run)
          /\ IF ~args.dry_run /\ env.remote = "unreachable"
             THEN Finish(1, "CalledProcessError")
             ELSE pc' = "fr_pull" /\ UNCHANGED <<exit, out>>
    /\ UNCHANGED <<current, branches, eternal, pending, deleted>>
    /\ FrFrame

\* _run(["pull", "--ff-only", "origin", target]); git.run raises when the
\* local branch cannot be fast-forwarded.
FrPull ==
    /\ pc = "fr_pull"
    /\ trace' = Append(trace, "pull")
    /\ LET cmd == <<"pull", "--ff-only", "origin", args.target_branch>>
       IN /\ git_calls' = git_calls \o RunOf(cmd, args.dry_run)
          /\ printed' = printed \o DryLineOf(cmd, args.dry_run)
          /\ IF ~args.dry_run /\ env.remote = "diverged"
             THEN Finish(1, "CalledProcessError")
             ELSE pc' = "fr_merged" /\ UNCHANGED <<exit, out>>
    /\ UNCHANGED <<current, branches, eternal, pending, deleted>>
    /\ FrFrame

\* git.merged_branches(args.target_branch): read_output raises when the
\* target names no branch.
FrMerged ==
    /\ pc = "fr_merged"
    /\ trace' = Append(trace, "merged_branches")
    /\ IF env.target_exists
       THEN /\ pending' = merged_branches(branches, env.merged)
            /\ pc' = "fr_loop"
            /\ UNCHANGED <<exit, out>>
       ELSE Finish(1, "CalledProcessError") /\ UNCHANGED pending
    /\ UNCHANGED <<current, branches, eternal, deleted, git_calls, printed>>
    /\ FrFrame

\* One turn of the loop: a branch in eternal is skipped; any other is handed
\* to _run(["branch", "-d", branch]) and appended to deleted. git refuses to
\* delete the branch that is checked out, and git.run raises.
FrDelete ==
    /\ pc = "fr_loop"
    /\ pending # <<>>
    /\ LET branch == Head(pending)
           cmd == <<"branch", "-d", branch>>
       IN IF branch \in eternal
          THEN /\ pending' = Tail(pending)
               /\ UNCHANGED <<pc, exit, out, branches, deleted, git_calls, printed>>
          ELSE /\ git_calls' = git_calls \o RunOf(cmd, args.dry_run)
               /\ printed' = printed \o DryLineOf(cmd, args.dry_run)
               /\ IF args.dry_run
                  THEN /\ deleted' = Append(deleted, branch)
                       /\ pending' = Tail(pending)
                       /\ UNCHANGED <<pc, exit, out, branches>>
                  ELSE IF branch = current
                  THEN /\ Finish(1, "CalledProcessError")
                       /\ UNCHANGED <<branches, deleted, pending>>
                  ELSE /\ branches' = branches \ {branch}
                       /\ deleted' = Append(deleted, branch)
                       /\ pending' = Tail(pending)
                       /\ UNCHANGED <<pc, exit, out>>
    /\ UNCHANGED <<current, eternal, trace>>
    /\ FrFrame

\* After the loop: git.run("remote", "prune", "origin") unless --dry-run, the
\* summary, return 0.
FrPrune ==
    /\ pc = "fr_loop"
    /\ pending = <<>>
    /\ trace' = Append(trace, "prune")
    /\ LET cmd == <<"remote", "prune", "origin">>
       IN /\ git_calls' = git_calls \o RunOf(cmd, args.dry_run)
          /\ printed' = printed \o DryLineOf(cmd, args.dry_run)
    /\ Finish(0, "Finalization complete.")
    /\ UNCHANGED <<current, branches, eternal, pending, deleted>>
    /\ FrFrame

NextFinalize ==
    \/ FrProfile
    \/ FrCheckout
    \/ FrFetch
    \/ FrPull
    \/ FrMerged
    \/ FrDelete
    \/ FrPrune

SpecFinalize == InitFinalize /\ [][NextFinalize]_vars

---------------------------------------------------------------------------
(* prepare_release                                                         *)

MaxReleaseRuns == 2

\* The version detect_ecosystem finds, and the release branch named after it.
Version == "1.2.3"
ReleaseBranch == "release/" \o Version

\* What the run finds: the tools on PATH; what detect_ecosystem comes to
\* ("none": no ecosystem file, "invalid": a VERSION file that is not
\* MAJOR.MINOR.PATCH); whether HEAD equals origin/develop; the one external
\* command that fails, if any; whether git-cliff changes CHANGELOG.md.
ToolSets ==
    {{"gh", "git-cliff", "markdownlint"}, {"git-cliff", "markdownlint"},
     {"gh", "markdownlint"}, {"gh", "git-cliff"}}
Failures ==
    {"none", "fetch develop", "fetch main", "merge", "git-cliff", "markdownlint",
     "push", "pr create", "pr merge"}
ReleaseEnvs ==
    [tools : ToolSets, detect : {"none", "invalid", "version"}, synced : BOOLEAN,
     fails : Failures, publishable : BOOLEAN]

\* The state a run starts from, kept for the run's length.
ReleaseStart ==
    [op |-> "prepare_release", result |-> "running", before |-> current,
     writes0 |-> 0, tree0 |-> tree, branches0 |-> branches, origin0 |-> origin]

\* git.ref_exists(branch) only: the branch on origin is not looked for.
release_branch_exists_LocalOnly(local, remote, branch) == branch \in local

\* git.ref_exists(branch) or git.ref_exists(f"origin/{branch}")
release_branch_exists(local, remote, branch) == branch \in local \/ branch \in remote

InitRelease ==
    /\ env \in ReleaseEnvs
    /\ current \in {"develop", "feature/x"}
    /\ tree \in {"clean", "dirty"}
    /\ branches \in {{"develop", "main", "feature/x"},
                      {"develop", "main", "feature/x", ReleaseBranch}}
    /\ origin \in {{"develop", "main"}, {"develop", "main", ReleaseBranch}}
    /\ eternal = {}
    /\ pending = <<>>
    /\ deleted = <<>>
    /\ git_calls = <<>>
    /\ printed = <<>>
    /\ args = [issue |-> 42]
    /\ pc = "rl_on_develop"
    /\ exit = -1
    /\ out = ""
    /\ trace = <<>>
    /\ doc = Doc("missing", "absent", <<>>)
    /\ target_exists = FALSE
    /\ specs = <<>>
    /\ language = "python"
    /\ generated = ""
    /\ file = ""
    /\ writes = 0
    /\ calls = 1
    /\ last = ReleaseStart
    /\ prev = NoCall
    /\ ClsIdle

\* Everything a step of prepare_release leaves alone but its own variables.
RlFrame ==
    /\ UNCHANGED <<args, doc, target_exists, specs, env, eternal, pending, deleted>>
    /\ UNCHANGED patchVars
    /\ UNCHANGED clsVars

\* The step passes on to the next, or the run ends with status 1 and a
\* message (SystemExit with a message, or an exception that escapes main).
RlStep(step, ok, next, message) ==
    /\ trace' = Append(trace, step)
    /\ IF ok THEN pc' = next /\ UNCHANGED <<exit, out>>
       ELSE Finish(1, message)

\* _ensure_on_develop()
RlOnDevelop ==
    /\ pc = "rl_on_develop"
    /\ RlStep("_ensure_on_develop", current = "develop", "rl_clean_tree",
              "Must be on develop branch")
    /\ UNCHANGED <<current, branches, origin, tree, git_calls, printed>>
    /\ RlFrame

\* _ensure_clean_tree()
RlCleanTree ==
    /\ pc = "rl_clean_tree"
    /\ RlStep("_ensure_clean_tree", tree = "clean", "rl_up_to_date",
              "Working tree is not clean")
    /\ UNCHANGED <<current, branches, origin, tree, git_calls, printed>>
    /\ RlFrame

\* _ensure_develop_up_to_date(): fetch, then compare HEAD with origin/develop
RlUpToDate ==
    /\ pc = "rl_up_to_date"
    /\ git_calls' = Append(git_calls, <<"fetch", "origin", "develop">>)
    /\ IF env.fails = "fetch develop"
       THEN RlStep("_ensure_develop_up_to_date", FALSE, "", "CalledProcessError")
       ELSE RlStep("_ensure_develop_up_to_date", env.synced, "rl_gh",
                   "does not match origin/develop")
    /\ UNCHANGED <<current, branches, origin, tree, printed>>
    /\ RlFrame

\* _ensure_tool("gh")
RlToolGh ==
    /\ pc = "rl_gh"
    /\ RlStep("_ensure_tool", "gh" \in env.tools, "rl_detect",
              "Required tool 'gh' not found")
    /\ UNCHANGED <<current, branches, origin, tree, git_calls, printed>>
    /\ RlFrame

\* ecosystem, version = detect_ecosystem()
RlDetect ==
    /\ pc = "rl_detect"
    /\ RlStep("detect_ecosystem", env.detect = "version", "rl_branch",
              IF env.detect = "none" THEN "Could not detect ecosystem"
              ELSE "not valid semver")
    /\ printed' = IF env.detect = "version"
                  THEN Append(printed, "Preparing release " \o Version)
                  ELSE printed
    /\ UNCHANGED <<current, branches, origin, tree, git_calls>>
    /\ RlFrame

\* _create_release_branch with "git branch" in place of "git checkout -b":
\* the branch is made and develop stays checked out.
RlCreateBranch_NoSwitch ==
    /\ pc = "rl_branch"
    /\ LET exists == release_branch_exists(branches, origin, ReleaseBranch)
       IN /\ RlStep("_create_release_branch", ~exists, "rl_merge",
                    "Release branch already exists")
          /\ IF exists THEN UNCHANGED <<branches, git_calls, printed>>
             ELSE /\ git_calls' = Append(git_calls, <<"checkout", "-b", ReleaseBranch>>)
                  /\ branches' = branches \cup {ReleaseBranch}
                  /\ printed' = Append(printed, "Creating branch: " \o ReleaseBranch)
    /\ UNCHANGED <<current, origin, tree>>
    /\ RlFrame

\* _create_release_branch(branch)
RlCreateBranch ==
    /\ pc = "rl_branch"
    /\ LET exists == release_branch_exists(branches, origin, ReleaseBranch)
       IN /\ RlStep("_create_release_branch", ~exists, "rl_merge",
                    "Release branch already exists")
          /\ IF exists THEN UNCHANGED <<current, branches, git_calls, printed>>
             ELSE /\ git_calls' = Append(git_calls, <<"checkout", "-b", ReleaseBranch>>)
                  /\ branches' = branches \cup {ReleaseBranch}
                  /\ current' = ReleaseBranch
                  /\ printed' = Append(printed, "Creating branch: " \o ReleaseBranch)
    /\ UNCHANGED <<origin, tree>>
    /\ RlFrame

\* _merge_main(version): fetch origin main, then merge origin/main; a merge
\* that fails leaves the tree with the conflicts.
RlMergeMain ==
    /\ pc = "rl_merge"
    /\ LET fetch == <<"fetch", "origin", "main">>
           merge == <<"merge", "origin/main", "-X", "ours", "-m",
                      "chore: merge main into release/" \o Version>>
       IN IF env.fails = "fetch main"
          THEN /\ git_calls' = Append(git_calls, fetch)
               /\ RlStep("_merge_main", FALSE, "", "CalledProcessError")
               /\ UNCHANGED tree
          ELSE /\ git_calls' = git_calls \o <<fetch, merge>>
               /\ RlStep("_merge_main", env.fails # "merge", "rl_changelog",
                         "CalledProcessError")
               /\ tree' = IF env.fails = "merge" THEN "dirty" ELSE tree
    /\ printed' = Append(printed, "Merging main into release branch...")
    /\ UNCHANGED <<current, branches, origin>>
    /\ RlFrame

\* _generate_changelog(version): both tools are looked for, git-cliff writes
\* CHANGELOG.md, markdownlint checks it, git add, and the commit unless
\* nothing is staged.
RlChangelog ==
    /\ pc = "rl_changelog"
    /\ LET cliff == <<"git-cliff", "--tag", "develop-v" \o Version, "-o", "CHANGELOG.md">>
           lint == <<"markdownlint", "CHANGELOG.md">>
           add == <<"add", "CHANGELOG.md">>
           commit == <<"commit", "-m", "chore: prepare release " \o Version>>
           written == IF env.publishable THEN "dirty" ELSE tree
       IN IF "git-cliff" \notin env.tools
          THEN /\ RlStep("_generate_changelog", FALSE, "", "Required tool 'git-cliff' not found")
               /\ UNCHANGED <<git_calls, tree>>
          ELSE IF "markdownlint" \notin env.tools
          THEN /\ RlStep("_generate_changelog", FALSE, "", "Required tool 'markdownlint' not found")
               /\ UNCHANGED <<git_calls, tree>>
          ELSE IF env.fails = "git-cliff"
          THEN /\ RlStep("_generate_changelog", FALSE, "", "CalledProcessError")
               /\ git_calls' = Append(git_calls, cliff)
               /\ UNCHANGED tree
          ELSE IF env.fails = "markdownlint"
          THEN /\ RlStep("_generate_changelog", FALSE, "", "CHANGELOG.md failed markdownlint validation")
               /\ git_calls' = git_calls \o <<cliff, lint>>
               /\ tree' = written
          ELSE IF ~env.publishable
          THEN /\ RlStep("_generate_changelog", FALSE, "", "No publishable changes")
               /\ git_calls' = git_calls \o <<cliff, lint, add>>
               /\ tree' = written
          ELSE /\ RlStep("_generate_changelog", TRUE, "rl_push", "")
               /\ git_calls' = git_calls \o <<cliff, lint, add, commit>>
               /\ tree' = "clean"
    /\ UNCHANGED <<current, branches, origin, printed>>
    /\ RlFrame

\* git.run("push", "-u", "origin", branch)
RlPush ==
    /\ pc = "rl_push"
    /\ git_calls' = Append(git_calls, <<"push", "-u", "origin", ReleaseBranch>>)
    /\ RlStep("push", env.fails # "push", "rl_pr", "CalledProcessError")
    /\ origin' = IF env.fails # "push" THEN origin \cup {ReleaseBranch} ELSE origin
    /\ printed' = Append(printed, "Pushing branch: " \o ReleaseBranch)
    /\ UNCHANGED <<current, branches, tree>>
    /\ RlFrame

\* url = _create_pr(version, args.issue)
RlCreatePr ==
    /\ pc = "rl_pr"
    /\ git_calls' = Append(git_calls, <<"gh", "pr", "create", "--base", "main",
                                        "--title", "release: " \o Version>>)
    /\ RlStep("_create_pr", env.fails # "pr create", "rl_auto_merge", "CalledProcessError")
    /\ printed' = Append(printed, "Creating pull request to main...")
    /\ UNCHANGED <<current, branches, origin, tree>>
    /\ RlFrame

\* github.auto_merge(url, strategy="--merge")
RlAutoMerge ==
    /\ pc = "rl_auto_merge"
    /\ git_calls' = Append(git_calls, <<"gh", "pr", "merge", "--auto", "--merge",
                                        "url", "--delete-branch">>)
    /\ RlStep("auto_merge", env.fails # "pr merge", "rl_back", "CalledProcessError")
    /\ UNCHANGED <<current, branches, origin, tree, printed>>
    /\ RlFrame

\* git.run("checkout", "develop"); ...; return 0
RlBackToDevelop ==
    /\ pc = "rl_back"
    /\ git_calls' = Append(git_calls, <<"checkout", "develop">>)
    /\ current' = "develop"
    /\ trace' = Append(trace, "checkout develop")
    /\ printed' = Append(printed, "Release " \o Version \o " preparation complete.")
    /\ Finish(0, "complete")
    /\ UNCHANGED <<branches, origin, tree>>
    /\ RlFrame

\* prepare_release is run again for the same version; before that the user
\* may have put the working tree back in order (git merge --abort, git
\* restore) and may have checked develop out.
RlRerun ==
    /\ pc = "done"
    /\ calls < MaxReleaseRuns
    /\ \E restore, back \in BOOLEAN :
          LET tree1 == IF restore THEN "clean" ELSE tree
              current1 == IF back THEN "develop" ELSE current
          IN /\ tree' = tree1
             /\ current' = current1
             /\ last' = [op |-> "prepare_release", result |-> "running",
                         before |-> current1, writes0 |-> 0, tree0 |-> tree1,
                         branches0 |-> branches, origin0 |-> origin]
    /\ calls' = calls + 1
    /\ prev' = [last EXCEPT !.result = out]
    /\ pc' = "rl_on_develop"
    /\ exit' = -1
    /\ out' = ""
    /\ trace' = <<>>
    /\ git_calls' = <<>>
    /\ printed' = <<>>
    /\ UNCHANGED <<branches, origin>>
    /\ UNCHANGED <<args, doc, target_exists, specs, env, eternal, pending, deleted>>
    /\ UNCHANGED <<language, generated, file, writes>>
    /\ UNCHANGED clsVars

NextRelease ==
    \/ RlOnDevelop
    \/ RlCleanTree
    \/ RlUpToDate
    \/ RlToolGh
    \/ RlDetect
    \/ RlCreateBranch
    \/ RlMergeMain
    \/ RlChangelog
    \/ RlPush
    \/ RlCreatePr
    \/ RlAutoMerge
    \/ RlBackToDevelop
    \/ RlRerun

SpecRelease == InitRelease /\ [][NextRelease]_vars

---------------------------------------------------------------------------
(* Properties of the classifier, under SpecClassify.                       *)

Classified == cspec # NoSpec

\* The conditions of the five rules, read off the inputs.
SingletonOnlyTokens == {"QMGR", "CMDSERV", "QMSTATUS"}
MarkedSingleton == Has(entry, "pattern") /\ entry["pattern"] = JStr("singleton")
DisplayOfPlural == verb = "DISPLAY" /\ mqsc_qualifier \notin SingletonOnlyTokens
NameRequiredSet == Has(entry, "name_required") /\ Truthy(entry["name_required"])
SingletonOnlyTarget == mqsc_qualifier \in SingletonOnlyTokens

\* C1: the pattern is decided by the first rule that matches, in the order
\* singleton mark, DISPLAY of a qualifier outside {QMGR, CMDSERV, QMSTATUS},
\* name_required, qualifier in that set, otherwise optional_name; so a DISPLAY
\* of an outside qualifier is list even when name_required is set.
C1_FirstMatchOrder ==
    Classified =>
        /\ MarkedSingleton => cspec.pattern = "singleton"
        /\ (~MarkedSingleton /\ DisplayOfPlural) => cspec.pattern = "list"
        /\ (~MarkedSingleton /\ ~DisplayOfPlural /\ NameRequiredSet)
               => cspec.pattern = "required_name"
        /\ (~MarkedSingleton /\ ~DisplayOfPlural /\ ~NameRequiredSet
                /\ SingletonOnlyTarget) => cspec.pattern = "no_name"
        /\ (~MarkedSingleton /\ ~DisplayOfPlural /\ ~NameRequiredSet
                /\ ~SingletonOnlyTarget) => cspec.pattern = "optional_name"

\* C1 witness: a DISPLAY of QUEUE with name_required set has been classified
\* (rules 2 and 3 both match) and came out list.
C1_Witness ==
    /\ Classified
    /\ verb = "DISPLAY" /\ mqsc_qualifier = "QUEUE"
    /\ ~MarkedSingleton /\ NameRequiredSet
    /\ cspec.pattern = "list"

PatternTags == {"singleton", "list", "required_name", "no_name", "optional_name"}

\* The tokens in lower case, written out.
LowerToken ==
    [t \in QualifierTokens |->
        CASE t = "QMGR" -> "qmgr"
          [] t = "CMDSERV" -> "cmdserv"
          [] t = "QMSTATUS" -> "qmstatus"
          [] t = "QUEUE" -> "queue"
          [] OTHER -> "authinfo"]

QualifierIsText == Has(entry, "qualifier") /\ entry["qualifier"].t = "str"

\* C11: classify_command returns for every triple a spec that carries the
\* verb and the token it was given, a pattern that is one of the five tags,
\* a name_default that is None or a string, and as display qualifier the
\* entry's qualifier when that is a string and the lower-cased token when it
\* is missing, a number or null.
C11_ClassifyTotal ==
    Classified =>
        /\ cspec.verb = verb /\ cspec.mqsc_qualifier = mqsc_qualifier
        /\ cspec.pattern \in PatternTags
        /\ cspec.name_default \in {None} \cup {Some(x) : x \in {"*"}}
        /\ cspec.qualifier = (IF QualifierIsText THEN entry["qualifier"].s
                              ELSE LowerToken[mqsc_qualifier])
        /\ DOMAIN cspec = {"verb", "mqsc_qualifier", "qualifier", "pattern", "name_default"}

\* C11 witness: an entry whose qualifier is the number 42 has been classified
\* and the spec carries the lower-cased token.
C11_Witness ==
    /\ Classified
    /\ Has(entry, "qualifier") /\ entry["qualifier"] = JInt(42)
    /\ mqsc_qualifier = "AUTHINFO" /\ cspec.qualifier = "authinfo"

\* The entry with its pattern field removed.
WithoutPattern(e) == [k \in DOMAIN e \ {"pattern"} |-> e[k]]

ExplicitNonSingleton == Has(entry, "pattern") /\ entry["pattern"] # JStr("singleton")

\* C22: an explicit pattern other than "singleton" has no effect: whenever
\* the entry's pattern field is present and is not "singleton" ("list",
\* "required_name", "no_name", "optional_name" or an unknown string), the
\* spec classify_command returned equals the spec it returns for the same
\* verb, token and entry with the pattern field removed.
C22_NonSingletonPatternIgnored ==
    (Classified /\ ExplicitNonSingleton) =>
        cspec = classify_command(verb, mqsc_qualifier, WithoutPattern(entry))

\* C22 witness: DISPLAY QUEUE with the explicit pattern "no_name" has been
\* classified, and came out list as it does without the field.
C22_Witness ==
    /\ Classified
    /\ verb = "DISPLAY" /\ mqsc_qualifier = "QUEUE"
    /\ Has(entry, "pattern") /\ entry["pattern"] = JStr("no_name")
    /\ cspec.pattern = "list"

---------------------------------------------------------------------------
(* Properties of the patcher and the checker, under SpecPatch.             *)

BeginMarker == MARKERS[language][1]
EndMarker == MARKERS[language][2]

\* sub occurs in s at index i (from 0), and nowhere before.
OccursAt(s, sub, i) ==
    i + Len(sub) <= Len(s) /\ SubSeq(s, i + 1, i + Len(sub)) = sub
FirstAt(s, sub, i) ==
    /\ OccursAt(s, sub, i)
    /\ \A k \in 0..(i - 1) : ~OccursAt(s, sub, k)
Contains(s, sub) == \E i \in 0..(Len(s) - Len(sub)) : OccursAt(s, sub, i)

Wrote == writes # last.writes0
Returned == last.result # "ValueError"

\* C2 as stated: a second update_file right after one that found the marker
\* pair returns False and leaves the file as it was.
C2_SecondUpdateUnchanged ==
    (last.op = "update" /\ prev.op = "update" /\ prev.result # "ValueError")
        => (last.result = "False" /\ file = last.before /\ ~Wrote)

\* C3 as stated: a check right after an update that succeeded reports up to
\* date; a check right after the marked region was made stale reports drift.
C3_CheckAfterUpdateUpToDate ==
    /\ (last.op = "check" /\ prev.op = "update" /\ prev.result # "ValueError")
           => last.result = "up to date"
    /\ (last.op = "check" /\ prev.op = "edit") => last.result = "out of date"

\* C4: update_file calls write_text exactly when the content it built differs
\* from the content it read, returns True exactly when it wrote, and when it
\* did not write the file is as it was.
C4_WritesIffDifferent ==
    (last.op = "update" /\ Returned) =>
        LET built == NewSource(last.before, BeginMarker, EndMarker,
                               Index(last.before, BeginMarker),
                               Index(last.before, EndMarker), generated)
        IN /\ Wrote <=> (built # last.before)
           /\ (last.result = "True") <=> Wrote
           /\ Wrote => (writes = last.writes0 + 1 /\ file = built)
           /\ ~Wrote => file = last.before

\* C4 witness: an update_file that built the content already in the file,
\* returned False and did not write.
C4_Witness ==
    /\ last.op = "update" /\ last.result = "False"
    /\ ~Wrote /\ file = last.before

\* C5: after update_file the file is the text before the first begin marker,
\* the begin marker, a newline, the generated block, two newlines, the end
\* marker, and the text after the first end marker.
C5_ContentAfterUpdate ==
    (last.op = "update" /\ Returned) =>
        \A i \in 0..Len(last.before) :
            FirstAt(last.before, BeginMarker, i) =>
                \A j \in 0..Len(last.before) :
                    FirstAt(last.before, EndMarker, j) =>
                        file = Upto(last.before, i) \o BeginMarker \o "\n"
                                 \o generated \o "\n\n" \o EndMarker
                                 \o From(last.before, j + Len(EndMarker))

\* C5 witness: update_file rewrote a file that had text before the begin
\* marker and stale text between the markers.
C5_Witness ==
    /\ last.op = "update" /\ last.result = "True"
    /\ prev.op = "edit"
    /\ \E i \in 1..Len(last.before) :
           /\ FirstAt(last.before, BeginMarker, i)
           /\ OccursAt(last.before, StaleRegion, i + Len(BeginMarker))
    /\ ~Contains(file, StaleRegion)

\* C6: _check_target never writes the file, and it reports up to date
\* exactly when update_file on the same file, language and block would
\* return False.
C6_CheckIsDryRun ==
    last.op = "check" =>
        /\ file = last.before
        /\ ~Wrote
        /\ LET u == update_file(last.before, language, generated)
           IN (last.result = "up to date") <=> (~u.raised /\ ~u.changed)

\* C6 witness: a check reported up to date on a file an update had written.
C6_Witness ==
    /\ last.op = "check" /\ last.result = "up to date"
    /\ prev.op = "update" /\ prev.result = "True"

\* C7: on a file that lacks the begin marker or the end marker, update_file
\* and _check_target raise, and the file is left as it was.
C7_MissingMarkerFails ==
    (/\ last.op \in {"update", "check"}
     /\ (~Contains(last.before, BeginMarker) \/ ~Contains(last.before, EndMarker)))
        => (last.result = "ValueError" /\ file = last.before /\ ~Wrote)

\* C7 witness: on a file with the begin marker and no end marker, update_file
\* raised and then _check_target raised.
C7_Witness ==
    /\ last.op = "check" /\ last.result = "ValueError"
    /\ prev.op = "update" /\ prev.result = "ValueError"
    /\ Contains(file, BeginMarker) /\ ~Contains(file, EndMarker)

---------------------------------------------------------------------------
(* Properties of main, under Spec.                                         *)

\* The steps of the run so far, in order, are exactly these.
Ran(steps) == trace = steps

\* The run has ended, with an error or a status other than 0.
Failed == pc = "done" /\ exit # 0

\* C8: within a run of main the target file is written only by update_file,
\* after load_commands returned the specs and generate returned the whole
\* block built from them; a run that ends with an error or a status other
\* than 0 leaves the file as it was when the run started.
C8_WriteOnlyAfterBlockBuilt ==
    /\ (Wrote \/ file # last.before) =>
           /\ Ran(<<"parse_args", "is_file", "load_commands", "generate", "update_file">>)
           /\ specs = load_commands(doc).specs
           /\ generated = generate(language, specs,
                                   resolve_mapping_pages(args.mapping_pages_dir)).text
           /\ pc = "done" /\ exit = 0
    /\ Failed => (file = last.before /\ ~Wrote)

\* C8 witness: a run that loaded specs, built the block and then wrote the
\* file, which now holds the block.
C8_Witness ==
    /\ pc = "done" /\ exit = 0 /\ out = "updated"
    /\ Wrote /\ file # last.before
    /\ Len(specs) > 0 /\ Contains(file, generated)

\* The conditions of a run, stated on its inputs.
Unsupported == language \notin LANGUAGES
DocMissing == doc.kind = "missing"
DocUnreadable == doc.kind \in {"invalid", "array"}
EmptyVerbKey ==
    /\ doc.kind = "object" /\ doc.commands = "dict"
    /\ \E i \in 1..Len(doc.table) :
           /\ doc.table[i].is_dict
           /\ Len(doc.table[i].key) > 1
           /\ SubSeq(doc.table[i].key, 1, 1) = " "
EmitterFails == language = "java" /\ EmptyVerbKey
TargetGiven == args.target # "none"
TargetMissing == TargetGiven /\ ~target_exists
MarkerMissing ==
    /\ TargetGiven /\ target_exists
    /\ (~Contains(last.before, BeginMarker) \/ ~Contains(last.before, EndMarker))
Drift ==
    /\ TargetGiven /\ target_exists /\ args.check
    /\ Contains(last.before, BeginMarker) /\ Contains(last.before, EndMarker)
    /\ last.before # NewSource(last.before, BeginMarker, EndMarker,
                               Index(last.before, BeginMarker),
                               Index(last.before, EndMarker), generated)

\* C9 as stated: main exits with status 1 when the document is missing, the
\* language is unsupported or drift is detected in check mode, and with
\* status 0 in every other case.
C9_ExitOneOnThreeCasesElseZero ==
    pc = "done" =>
        exit = (IF Unsupported \/ DocMissing \/ (~Unsupported /\ ~DocMissing /\ Drift)
                THEN 1 ELSE 0)

\* C9: main exits with status 2 when the language is not one of the five
\* choices; otherwise with status 1 when the document is missing, when an
\* exception escapes (the document is not JSON or not an object, the java
\* emitter meets an empty verb, the target file or one of its markers is
\* missing) or when drift is detected in check mode; and with status 0 in
\* every other case.
C9_ExitStatus ==
    pc = "done" =>
        exit = (IF Unsupported THEN 2
                ELSE IF DocMissing \/ DocUnreadable \/ EmitterFails THEN 1
                ELSE IF TargetMissing \/ MarkerMissing \/ Drift THEN 1
                ELSE 0)

\* C9 witness: a check-mode run on a document that is there, in a supported
\* language, detected drift and exited with 1.
C9_Witness ==
    /\ pc = "done" /\ exit = 1 /\ out = "out of date"
    /\ ~Unsupported /\ ~DocMissing /\ Drift

---------------------------------------------------------------------------
(* Properties of load_commands, under SpecLoad.                            *)

Loaded == pc = "loaded"
LoadedTable == Loaded /\ doc.kind = "object" /\ doc.commands = "dict"

\* The tokens of a key: the non-empty runs between spaces.
TokensOf(key) == SelectSeq(SplitAll(key, " "), LAMBDA piece : piece # "")

\* The key is "<VERB> <QUALIFIER_TOKEN>": two tokens and one space.
TwoTokenKey(key) ==
    Len(TokensOf(key)) = 2 /\ key = TokensOf(key)[1] \o " " \o TokensOf(key)[2]

LabelsOf(spec_list) == [i \in 1..Len(spec_list) |-> CommandLabel(spec_list[i])]
LabelSet(spec_list) == {CommandLabel(spec_list[i]) : i \in 1..Len(spec_list)}

\* C12 as stated: load_commands drops every entry whose key is not two
\* tokens separated by one space, so every spec it returns comes from a key
\* of the form "<VERB> <QUALIFIER_TOKEN>".
C12_OnlyTwoTokenKeysKept ==
    LoadedTable => \A label \in LabelSet(specs) : TwoTokenKey(label)

\* The members of the table that are well formed: a two-token key with an
\* object as value.
WellFormed(item) == TwoTokenKey(item.key) /\ item.is_dict
WellFormedOnly(table) == SelectSeq(table, WellFormed)

\* C13 as stated: the load returns, with one spec per well-formed member and
\* none for the others, and the specs are those the table without its
\* malformed members gives.
C13_OneSpecPerWellFormedEntry ==
    LoadedTable =>
        /\ out = "returned"
        /\ Len(specs) = Len(WellFormedOnly(doc.table))
        /\ specs = load_commands(Doc("object", "dict", WellFormedOnly(doc.table))).specs

\* The keys load_commands retains: those with a space, whose value is an object.
RetainedKeys ==
    {doc.table[i].key : i \in {j \in 1..Len(doc.table) :
        doc.table[j].is_dict /\ Contains(doc.table[j].key, " ")}}

\* C14: the labels of the returned specs are the retained keys, each once, in
\* ascending order by code point, whatever the order of the document.
C14_SpecsInSortedKeyOrder ==
    LoadedTable =>
        /\ LabelSet(specs) = RetainedKeys
        /\ Len(specs) = Cardinality(RetainedKeys)
        /\ \A i, j \in 1..Len(specs) :
               i < j => StrLess(LabelsOf(specs)[i], LabelsOf(specs)[j])

\* C14 witness: a document lists DISPLAY QUEUE ahead of ALTER QMGR, and the
\* specs came out with ALTER QMGR first.
C14_Witness ==
    /\ LoadedTable /\ Len(doc.table) >= 2
    /\ doc.table[1].key = "DISPLAY QUEUE" /\ doc.table[2].key = "ALTER QMGR"
    /\ Len(specs) >= 2
    /\ CommandLabel(specs[1]) = "ALTER QMGR"
    /\ \E i \in 2..Len(specs) : CommandLabel(specs[i]) = "DISPLAY QUEUE"

---------------------------------------------------------------------------
(* Properties of the emitters, under SpecEmit.                             *)

Emitted == pc = "emitted" /\ language \in LANGUAGES
EmittedText == Emitted /\ out = "generated"

\* The token a method declaration starts with, per language.
StartToken ==
    [l \in LANGUAGES |->
        CASE l = "python" -> "    def "
          [] l = "ruby" -> "        def "
          [] l = "java" -> "  public "
          [] l = "go" -> "func (session *Session) "
          [] OTHER -> "    pub fn "]

RECURSIVE CountOf(_, _)
\* The occurrences of sub in s, counted from the left without overlap.
CountOf(s, sub) ==
    LET k == FindFrom(s, sub, 0)
    IN IF k = -1 THEN 0 ELSE 1 + CountOf(From(s, k + Len(sub)), sub)

\* C15 as stated: on the specs load_commands returned, the emitter of each
\* of the five languages completes and its block holds as many method
\* declarations as there are specs.
C15_EveryEmitterGivesNMethods ==
    Emitted =>
        /\ out = "generated"
        /\ CountOf(generated, StartToken[language]) = Len(specs)

RECURSIVE SegmentsOf(_, _)
\* The pieces of s that follow each occurrence of tok, up to the next one.
SegmentsOf(s, tok) ==
    LET k == FindFrom(s, tok, 0)
        rest == From(s, k + Len(tok))
        k2 == FindFrom(rest, tok, 0)
    IN IF k = -1 THEN <<>>
       ELSE <<IF k2 = -1 THEN rest ELSE Upto(rest, k2)>> \o SegmentsOf(rest, tok)

\* The name a language gives the method of a spec.
MethodNameIn(l, cmd) ==
    IF l = "java" THEN java_method_name(cmd)
    ELSE IF l = "go" THEN go_method_name(cmd)
    ELSE SnakeName(cmd)

\* The method of one spec, per language.
MethodIn(l, cmd, mapping_pages) ==
    CASE l = "python" -> python_method(cmd, mapping_pages)
      [] l = "ruby" -> ruby_method(cmd)
      [] l = "java" -> java_method(cmd)
      [] l = "go" -> go_method(cmd)
      [] OTHER -> rust_method(cmd)

\* The i-th declaration of the block declares the method of the i-th spec and
\* passes its verb and token on, and the block is the methods of the specs in
\* order with one blank line between them.
InSpecOrder ==
    LET segs == SegmentsOf(generated, StartToken[language])
        pages == resolve_mapping_pages(args.mapping_pages_dir)
    IN /\ Len(segs) = Len(specs)
       /\ \A i \in 1..Len(specs) :
              /\ Contains(segs[i], MethodNameIn(language, specs[i]) \o "(")
              /\ Contains(segs[i], "\"" \o specs[i].mqsc_qualifier \o "\"")
                    \/ Contains(segs[i], "'" \o specs[i].mqsc_qualifier \o "'")
       /\ generated = Join([i \in 1..Len(specs) |-> MethodIn(language, specs[i], pages)],
                           "\n\n")

\* C16 as stated: for one spec list every one of the five languages generates
\* the methods of the same commands, the i-th method being that of the i-th
\* spec, joined in input order with one blank line between them.
C16_SameCommandsSameOrder ==
    Emitted => (out = "generated" /\ InSpecOrder)

\* The declaration that follows the start token has a name parameter.
HasNameParam(l, seg) ==
    CASE l = "python" -> Contains(seg, "        name: str")
      [] l = "ruby" -> Contains(seg, "(name")
      [] l = "java" -> Contains(seg, "String name,")
      [] l = "go" -> Contains(seg, " name string,")
      [] OTHER -> Contains(seg, "        name: ")

\* The text that passes no name to the underlying command, per language.
PassesAbsent(l, seg) ==
    CASE l = "python" -> Contains(seg, "            name=None,")
      [] l = "ruby" -> Contains(seg, " name: nil, request_parameters: request_parameters")
      [] l = "java" -> Contains(seg, "\", null, requestParameters, responseParameters")
      [] l = "go" -> Contains(seg, "\", nil, ")
      [] OTHER -> Contains(seg, "\",\n            None,\n            request_parameters,")

\* The text that passes the caller's name on as it is.
PassesCaller(l, seg) ==
    CASE l = "python" -> Contains(seg, "            name=name,")
      [] l = "ruby" -> Contains(seg, " name: name, request_parameters: request_parameters")
      [] l = "java" -> Contains(seg, "\", name, requestParameters, responseParameters")
      [] l = "go" -> Contains(seg, "\", &name, opts)") \/ Contains(seg, "\", name, opts)")
      [] OTHER -> \/ Contains(seg, "\",\n            name,\n            request_parameters,")
                  \/ Contains(seg, "\",\n            Some(name),\n            request_parameters,")

\* The text that passes the caller's name or else the default d.
PassesDefault(l, seg, d) ==
    CASE l = "python" -> Contains(seg, "            name=name or \"" \o d \o "\",")
      [] l = "ruby" -> Contains(seg, " name: name || '" \o d \o "', request_parameters")
      [] l = "java" -> Contains(seg, "\", name != null ? name : \"" \o d \o "\", requestParameters")
      [] l = "go" -> /\ Contains(seg, "\tdisplayName := name\n\tif displayName == \"\" {\n\t\tdisplayName = \""
                                       \o d \o "\"\n\t}\n")
                     /\ Contains(seg, "\", &displayName, ")
      [] OTHER -> Contains(seg, "\",\n            Some(name.unwrap_or(\"" \o d \o "\")),\n")

Segments == SegmentsOf(generated, StartToken[language])
DefaultOf(cmd) == IF cmd.name_default = None THEN "" ELSE cmd.name_default[1]
PassesSomeDefault(l, seg) == \E d \in {"*", ""} : PassesDefault(l, seg, d)

\* C17: in the block of every language the method of a no_name or singleton
\* spec declares no name parameter and passes no name, and the method of a
\* list, required_name or optional_name spec declares one and passes it on;
\* ALTER QMGR without pattern and name_required is no_name.
C17_NameParameterByPattern ==
    EmittedText =>
        LET segs == Segments
            NoNameIn(i) ==
                LET seg == segs[i]
                IN /\ ~HasNameParam(language, seg)
                   /\ PassesAbsent(language, seg)
                   /\ ~PassesCaller(language, seg)
                   /\ ~PassesSomeDefault(language, seg)
            NameIn(i) ==
                LET seg == segs[i]
                IN /\ HasNameParam(language, seg)
                   /\ ~PassesAbsent(language, seg)
                   /\ PassesCaller(language, seg) \/ PassesSomeDefault(language, seg)
        IN /\ Len(segs) = Len(specs)
           /\ \A i \in 1..Len(specs) :
                  IF specs[i].pattern \in {"no_name", "singleton"}
                  THEN NoNameIn(i) ELSE NameIn(i)
           /\ \A i \in 1..Len(doc.table) :
                  (doc.table[i].key = "ALTER QMGR"
                      /\ ~Has(doc.table[i].entry, "pattern")
                      /\ ~Has(doc.table[i].entry, "name_required"))
                  => \E j \in 1..Len(specs) :
                         /\ CommandLabel(specs[j]) = "ALTER QMGR"
                         /\ specs[j].pattern = "no_name"
                         /\ NoNameIn(j)

\* C17 witness: the go block holds the method of ALTER QMGR, no_name, without
\* a name parameter, next to the method of a required_name spec with one.
C17_Witness ==
    /\ EmittedText /\ language = "go" /\ Len(specs) = 2
    /\ CommandLabel(specs[1]) = "ALTER QMGR" /\ specs[1].pattern = "no_name"
    /\ ~HasNameParam(language, Segments[1])
    /\ specs[2].pattern = "required_name"
    /\ HasNameParam(language, Segments[2])

\* The text that returns nothing for no rows and the first row otherwise.
ReturnsFirstOrAbsent(l, seg) ==
    CASE l = "python" ->
             /\ Contains(seg, "        objects = self._mqsc_command(\n")
             /\ Contains(seg, "        )\n        if objects:\n            return objects[0]\n        return None")
      [] l = "ruby" ->
             /\ Contains(seg, "          objects = mqsc_command(\n")
             /\ Contains(seg, "          )\n          objects.empty? ? nil : objects[0]\n        end")
      [] l = "java" ->
             /\ Contains(seg, "    List<Map<String, Object>> objects =\n        mqscCommand(")
             /\ Contains(seg, ";\n    return objects.isEmpty() ? null : objects.get(0);\n  }")
      [] l = "go" ->
             /\ Contains(seg, "\tobjects, err := session.mqscCommand(")
             /\ Contains(seg, "\tif len(objects) == 0 {\n\t\treturn nil, nil\n\t}\n\treturn objects[0], nil\n}")
      [] OTHER ->
             /\ Contains(seg, "        let objects = self.mqsc_command(\n")
             /\ Contains(seg, "        )?;\n        Ok(objects.into_iter().next())\n    }")

\* The rows a query may yield, and what a method returns on them.
RowLists == {<<>>, <<"row1">>, <<"row1", "row2">>}
ReturnOn(l, seg, rows) ==
    IF ReturnsFirstOrAbsent(l, seg)
    THEN (IF Len(rows) = 0 THEN None ELSE Some(rows[1]))
    ELSE Some("other")

\* C18: in the block of every language the method of a singleton spec
\* returns nothing when the query yields no rows and the first row otherwise.
C18_SingletonFirstRowOrAbsent ==
    EmittedText =>
        LET segs == Segments
        IN \A i \in 1..Len(specs) :
               specs[i].pattern = "singleton" =>
                   \A rows \in RowLists :
                       ReturnOn(language, segs[i], rows) =
                           (IF rows = <<>> THEN None ELSE Some(Head(rows)))

\* C18 witness: the java block holds the method of a singleton spec, and on
\* two rows it returns the first.
C18_Witness ==
    /\ EmittedText /\ language = "java" /\ Len(specs) >= 1
    /\ specs[1].pattern = "singleton"
    /\ ReturnOn(language, Segments[1], <<"row1", "row2">>) = Some("row1")
    /\ ReturnOn(language, Segments[1], <<>>) = None

\* What a caller gives as name: nothing, the empty string, or a name. A go
\* method takes a plain string, so its caller gives the empty string for
\* nothing.
Callers == {None, Some(""), Some("Q1")}
CallersOf(l) == IF l = "go" THEN Callers \ {None} ELSE Callers
Omits(l, caller) == IF l = "go" THEN caller = Some("") ELSE caller = None

\* The name the method passes to the underlying command for a caller: python
\* "name or d" and go 'if displayName == ""' take d for an empty name too;
\* ruby "name || d", java "name != null ? name : d" and rust
\* "name.unwrap_or(d)" take d only for a missing one.
PassedName(l, seg, d, caller) ==
    IF PassesDefault(l, seg, d)
    THEN IF l \in {"python", "go"}
         THEN (IF caller = None \/ caller = Some("") THEN Some(d) ELSE caller)
         ELSE (IF caller = None THEN Some(d) ELSE caller)
    ELSE IF PassesCaller(l, seg) THEN caller
    ELSE None

---------------------------------------------------------------------------
(* Unsupported languages, under Spec.                                      *)

\* Identifiers outside the five, one of them a supported name in capitals.
UnsupportedIds == {"fortran", "cobol", "Python", ""}

\* C20: generate raises ValueError "Unsupported language" for every
\* identifier outside the five, whatever the specs, and returns no block; and
\* a run of main given such a language ends in parse_args, before the
\* document or the target is looked at, read or written.
C20_UnsupportedLanguageRejected ==
    /\ \A l \in UnsupportedIds \cup (LanguageArgs \ LANGUAGES) :
           LET g == generate(l, specs, resolve_mapping_pages(args.mapping_pages_dir))
           IN /\ g.raised
              /\ g.error = "ValueError: Unsupported language: " \o l
              /\ g.text = ""
    /\ (Unsupported /\ pc \in {"parse_args", "done"}) =>
           /\ specs = <<>> /\ generated = ""
           /\ file = last.before /\ ~Wrote
           /\ pc = "done" => (trace = <<"parse_args">> /\ exit = 2 /\ out = "invalid choice")
    /\ Unsupported => pc \in {"parse_args", "done"}

\* C20 witness: a run with an unsupported language, a document that is there
\* and a target with both markers ended with status 2 after parse_args alone.
C20_Witness ==
    /\ pc = "done" /\ Unsupported /\ exit = 2
    /\ doc.kind = "object" /\ Len(doc.table) > 0
    /\ args.target = "path" /\ target_exists /\ ~args.check
    /\ Contains(file, MARKERS["python"][1]) /\ Contains(file, MARKERS["python"][2])
    /\ trace = <<"parse_args">>

---------------------------------------------------------------------------
(* --check without --target, under Spec.                                   *)

\* The run got as far as the output step of main.
ReachedOutput == pc = "done" /\ Len(trace) = 5

\* The steps of the run, as a set.
StepsTaken == {trace[i] : i \in 1..Len(trace)}

\* C30: a run with --check and without --target compares nothing: once the
\* block is generated it prints it and exits 0, leaves the target file alone,
\* and reports what the run before it on the same files reported, whichever
\* way that run's --check was set; _check_target runs, and "out of date" with
\* exit 1 is reported, only when a target is given.
C30_CheckWithoutTargetPrints ==
    /\ (ReachedOutput /\ args.check /\ ~TargetGiven) =>
           /\ trace[5] = "print" /\ exit = 0 /\ out = "generated"
           /\ "_check_target" \notin StepsTaken
           /\ file = last.before /\ writes = last.writes0
    /\ (pc = "done" /\ ~TargetGiven /\ calls > 1) => out = prev.result
    /\ ("_check_target" \in StepsTaken \/ out = "out of date") => TargetGiven

\* C30 witness: a second run, with --check and no target, has printed the
\* block and exited 0 as the run before it did.
C30_Witness ==
    /\ ReachedOutput /\ args.check /\ ~TargetGiven
    /\ calls = 2 /\ prev.result = "generated"
    /\ trace[5] = "print" /\ exit = 0 /\ Len(generated) > 0

---------------------------------------------------------------------------
(* Properties of one emitter on one spec, under SpecMethod.                *)

MethodEmitted == pc = "method_emitted"
MethodText == MethodEmitted /\ out = "generated"

\* What generate gives for the spec with another name_default: the block, or
\* the error.
OutcomeWithDefault(nd) ==
    LET g == generate(language, <<[cspec EXCEPT !.name_default = nd]>>,
                      resolve_mapping_pages(args.mapping_pages_dir))
    IN <<IF g.raised THEN g.error ELSE "generated", g.text>>

\* C23: name_default only matters for list commands: for a spec whose
\* pattern is singleton, required_name, no_name or optional_name, each of the
\* five emitters gives the same method text whatever the name_default is
\* (none, "*", the empty string, "SYSTEM.*").
C23_NameDefaultOnlyForList ==
    (MethodEmitted /\ cspec.pattern # "list") =>
        \A nd \in MethodDefaults : OutcomeWithDefault(nd) = <<out, generated>>

\* C23 witness: the ruby method of an optional_name spec with name_default
\* "*" has been emitted; it passes the caller's name and never the default.
C23_Witness ==
    /\ MethodText /\ language = "ruby"
    /\ cspec.pattern = "optional_name" /\ cspec.name_default = Some("*")
    /\ cspec.verb = "ALTER" /\ cspec.mqsc_qualifier = "QUEUE"
    /\ Contains(generated, "def alter_queue(name: nil,")
    /\ Contains(generated, " name: name, request_parameters")
    /\ ~Contains(generated, "*")

\* What a caller's name is in a language: a go method takes a plain string,
\* so a caller with no name gives the empty string there.
CallerIn(l, caller) == IF l = "go" /\ caller = None THEN Some("") ELSE caller

\* The name the method of the spec in language l hands to the underlying
\* command for a caller.
NameHandedOn(l, caller) ==
    PassedName(l, MethodIn(l, cspec, resolve_mapping_pages(args.mapping_pages_dir)),
               DefaultOf(cspec), CallerIn(l, caller))

\* C24 as stated: for a list spec with a name_default, and for each caller
\* input (no name, the empty string, a non-empty string), the name handed to
\* the underlying command is the same in all five languages.
C24_SameNameInFiveLanguages ==
    (MethodText /\ cspec.pattern = "list" /\ HasNameDefault(cspec) /\ cspec.verb # "") =>
        \A caller \in Callers : \A l \in LANGUAGES :
            NameHandedOn(l, caller) = NameHandedOn(language, caller)

\* The same for the callers that give no name or a non-empty one.
C24_SameNameUnlessEmpty ==
    (MethodText /\ cspec.pattern = "list" /\ HasNameDefault(cspec) /\ cspec.verb # "") =>
        \A caller \in Callers \ {Some("")} : \A l \in LANGUAGES :
            NameHandedOn(l, caller) = NameHandedOn(language, caller)

\* C25 as stated: for a list spec without a name_default (DISPLAY AUTHINFO)
\* the ruby method's signature starts with a positional name parameter
\* followed by the request_parameters keyword, and its body passes
\* "where: where".
C25_RubyListPositionalName ==
    (MethodText /\ language = "ruby" /\ cspec.pattern = "list"
        /\ cspec.name_default = None) =>
        /\ Contains(generated, "def " \o SnakeName(cspec) \o "(name, request_parameters:")
        /\ Contains(generated, "where: where")

\* What the emitter writes instead: name is the keyword parameter "name: nil",
\* as it is for a list spec with a name_default; "where: where" is passed.
C25_RubyListKeywordName ==
    (MethodText /\ language = "ruby" /\ cspec.pattern = "list"
        /\ cspec.name_default = None) =>
        /\ Contains(generated, "def " \o SnakeName(cspec)
                                 \o "(name: nil, request_parameters: nil, response_parameters: nil, where: nil)")
        /\ ~Contains(generated, "(name, ")
        /\ Contains(generated, "where: where")

---------------------------------------------------------------------------
(* Properties of finalize_repo, under SpecFinalize.                        *)

DryRun == args.dry_run
FrDone == pc = "done"
Unrecognized == ModelOf(env.profile) \notin DOMAIN ETERNAL_BY_MODEL \cup {""}
PrintedLines == {printed[i] : i \in 1..Len(printed)}
GitCalls == {git_calls[i] : i \in 1..Len(git_calls)}

\* With --dry-run no command reaches git.run and the repository stays as it
\* was: the branch checked out and the local branches do not change.
DryRunChangesNothing ==
    /\ [](DryRun => git_calls = <<>>)
    /\ [][DryRun => UNCHANGED <<current, branches, origin, tree>>]_vars

\* C21 as stated: with --dry-run, finalize_repo calls git.run on no path,
\* changes nothing, and every run exits 0.
C21_DryRunAlwaysExitsZero ==
    /\ DryRunChangesNothing
    /\ []((DryRun /\ FrDone) => exit = 0)

\* C21: with --dry-run, finalize_repo calls git.run on no path and changes
\* nothing; it prints the fetch, the pull and the prune it would run, the
\* checkout when the target is not checked out, and one "branch -d" per
\* branch it reports as deleted. It exits 0 when the branching model is
\* recognized or not found and the target names a branch; it exits 1 on an
\* unrecognized branching model, before it reads or prints anything else,
\* and ends with status 1 when git cannot list the branches merged into a
\* target that names no branch.
C21_DryRunChangesNothingExitByModel ==
    /\ DryRunChangesNothing
    /\ []((DryRun /\ FrDone) =>
            /\ exit = (IF Unrecognized \/ ~env.target_exists THEN 1 ELSE 0)
            /\ Unrecognized => (trace = <<"profile">> /\ Len(printed) = 1)
            /\ exit = 0 =>
                   /\ ("  [dry-run] git checkout " \o args.target_branch \in PrintedLines)
                          <=> current # args.target_branch
                   /\ ("  [dry-run] git fetch origin " \o args.target_branch) \in PrintedLines
                   /\ ("  [dry-run] git pull --ff-only origin " \o args.target_branch)
                          \in PrintedLines
                   /\ "  [dry-run] git remote prune origin" \in PrintedLines
                   /\ \A i \in 1..Len(deleted) :
                          /\ ("  [dry-run] git branch -d " \o deleted[i]) \in PrintedLines
                          /\ deleted[i] \in branches)

\* C21 witness: a dry run from feature/x has ended with exit 0, reports
\* feature/x as deleted, has called git.run not once, and feature/x is still
\* there and checked out.
C21_Witness ==
    /\ DryRun /\ FrDone /\ exit = 0
    /\ current = "feature/x" /\ args.target_branch = "develop"
    /\ deleted = <<"feature/x">> /\ "feature/x" \in branches
    /\ git_calls = <<>>
    /\ "  [dry-run] git branch -d feature/x" \in PrintedLines

\* The branches the rules protect, by what the profile says: gh-pages
\* always, the model's own branches, develop and main when no model is found.
ProtectedBy(profile) ==
    {"gh-pages"} \cup
        (CASE profile = "docs-single-branch" -> {"develop"}
           [] profile = "library-release" -> {"develop", "main"}
           [] profile = "application-promotion" -> {"develop", "release", "main"}
           [] profile \in {"", "missing"} -> {"develop", "main"}
           [] OTHER -> {})

DeleteOf(b) == <<"branch", "-d", b>>

\* A run that changes the repository and meets no failure of the network or
\* of the target's name.
PlainRun == ~DryRun /\ ~Unrecognized /\ env.remote = "ok" /\ env.target_exists

\* No protected branch is handed to "branch -d" or goes missing, and no
\* branch outside the merged ones is.
ProtectedKept ==
    ~Unrecognized =>
        /\ \A b \in ProtectedBy(env.profile) :
               /\ DeleteOf(b) \notin GitCalls
               /\ b \in env.merged => b \in branches
               /\ \A i \in 1..Len(deleted) : deleted[i] # b
        /\ Unmerged \in branches

\* An unrecognized model ends the run with exit 1 before any branch is
\* deleted or any command run.
UnrecognizedAborts ==
    (Unrecognized /\ FrDone) =>
        /\ exit = 1 /\ git_calls = <<>> /\ deleted = <<>>
        /\ branches = env.merged \cup {current, Unmerged}

\* C27 as stated: finalize_repo never deletes a protected branch (gh-pages,
\* plus the branches of the model, plus develop and main when no model is
\* found); every other branch merged into the target is deleted by the end
\* of the run; and an unrecognized model aborts with exit 1 before any
\* branch is deleted.
C27_ProtectedKeptOthersDeleted ==
    /\ ProtectedKept
    /\ UnrecognizedAborts
    /\ (PlainRun /\ FrDone) =>
           \A b \in env.merged \ ProtectedBy(env.profile) :
               DeleteOf(b) \in GitCalls /\ b \notin branches

\* The same where the target branch is itself protected: there every other
\* merged branch is deleted and the run exits 0.
C27_WhenTargetProtected ==
    /\ ProtectedKept
    /\ UnrecognizedAborts
    /\ (PlainRun /\ FrDone /\ args.target_branch \in ProtectedBy(env.profile)) =>
           /\ exit = 0
           /\ \A b \in env.merged \ ProtectedBy(env.profile) :
                  DeleteOf(b) \in GitCalls /\ b \notin branches

\* C28 as stated: for every --target-branch and every recognized branching
\* model, no "branch -d <target-branch>" is issued, although the target is
\* in the list of branches merged into it.
C28_TargetBranchNeverDeleted ==
    ModelOf(env.profile) \in DOMAIN ETERNAL_BY_MODEL =>
        DeleteOf(args.target_branch) \notin GitCalls

---------------------------------------------------------------------------
(* Properties of prepare_release, under SpecRelease.                       *)

RlDone == pc = "done"
Calls == {git_calls[i] : i \in 1..Len(git_calls)}
StepsOfRun == {trace[i] : i \in 1..Len(trace)}

\* The calls that make the release: the branch, the merge, the commit, the
\* push, the pull request and its auto-merge.
CreateCall == <<"checkout", "-b", ReleaseBranch>>
BackCall == <<"checkout", "develop">>
AutoMergeCall == <<"gh", "pr", "merge", "--auto", "--merge", "url", "--delete-branch">>
IsReleaseCall(c) ==
    \/ c = CreateCall
    \/ c[1] \in {"merge", "commit", "push", "add", "git-cliff", "markdownlint", "gh"}

\* Every precondition holds in the state the run started from.
PreconditionsMet ==
    /\ last.before = "develop"
    /\ last.tree0 = "clean"
    /\ env.fails # "fetch develop" /\ env.synced
    /\ "gh" \in env.tools
    /\ env.detect = "version"
    /\ ReleaseBranch \notin last.branches0
    /\ ReleaseBranch \notin last.origin0

\* C26: prepare_release creates the release branch only after every
\* precondition check has passed (on develop, clean tree, HEAD equal to
\* origin/develop, gh on PATH, a version detected, release/<version> neither
\* local nor on origin); when one of them fails the run ends with status 1
\* and has performed no checkout -b, merge, commit, push, pull request or
\* auto-merge, and the branch checked out and the local branches are as
\* they were.
C26_BranchOnlyAfterPreconditions ==
    /\ CreateCall \in Calls =>
           /\ PreconditionsMet
           /\ {"_ensure_on_develop", "_ensure_clean_tree", "_ensure_develop_up_to_date",
                "_ensure_tool", "detect_ecosystem"} \subseteq StepsOfRun
           /\ git_calls[1] = <<"fetch", "origin", "develop">> /\ git_calls[2] = CreateCall
    /\ ~PreconditionsMet =>
           /\ \A c \in Calls : ~IsReleaseCall(c)
           /\ current = last.before /\ branches = last.branches0
           /\ origin = last.origin0
           /\ RlDone => exit = 1
    /\ (PreconditionsMet /\ pc \notin {"rl_on_develop", "rl_clean_tree", "rl_up_to_date",
                                         "rl_gh", "rl_detect", "rl_branch"})
           => CreateCall \in Calls

\* C26 witness: the branch exists on origin only; the run passed the five
\* checks before, stopped at "already exists", and made no release call.
C26_Witness ==
    /\ RlDone /\ out = "Release branch already exists" /\ exit = 1
    /\ ReleaseBranch \in origin /\ ReleaseBranch \notin branches
    /\ Len(trace) = 6
    /\ git_calls = <<<<"fetch", "origin", "develop">>>>
    /\ current = "develop"

\* What ends a run after the release branch was created.
AbortsAfterCreation ==
    {"CalledProcessError", "Required tool 'git-cliff' not found",
     "Required tool 'markdownlint' not found",
     "CHANGELOG.md failed markdownlint validation", "No publishable changes"}

\* This run created the release branch and then aborted.
AbortedAfterCreation == RlDone /\ exit = 1 /\ CreateCall \in Calls

\* The run before this one created the release branch and aborted, and the
\* branch is still there.
LaterRun ==
    /\ calls > 1
    /\ ReleaseBranch \notin prev.branches0 /\ ReleaseBranch \in last.branches0
    /\ prev.result # "complete"

\* develop is checked out again only as the last call of a run, right after
\* auto-merge was enabled, and a run that aborts after it created the
\* release branch leaves that branch in place and checked out.
BackOnlyAtTheEnd ==
    /\ BackCall \in Calls =>
           /\ git_calls[Len(git_calls)] = BackCall
           /\ git_calls[Len(git_calls) - 1] = AutoMergeCall
           /\ \A i \in 1..(Len(git_calls) - 1) : git_calls[i] # BackCall
           /\ RlDone /\ exit = 0 /\ current = "develop"
    /\ AbortedAfterCreation =>
           /\ current = ReleaseBranch /\ ReleaseBranch \in branches
           /\ BackCall \notin Calls
           /\ out \in AbortsAfterCreation

\* C29 as stated: develop is checked out again only as the last step, after
\* auto-merge; a run that aborts after the release branch was created leaves
\* it in place and checked out; and a later run for the same version stops
\* at "Release branch ... already exists".
C29_LaterRunStopsAtAlreadyExists ==
    /\ BackOnlyAtTheEnd
    /\ (LaterRun /\ RlDone) => out = "Release branch already exists"

\* C29: develop is checked out again only as the last step, after
\* auto-merge; a run that aborts after the release branch was created leaves
\* it in place and checked out; a later run for the same version ends with
\* status 1 and makes no release call: it stops at "Must be on develop
\* branch" as long as the release branch is still checked out, at "Working
\* tree is not clean" when develop was checked out with the tree left dirty,
\* and at "Release branch ... already exists" once it is started from a
\* clean develop.
C29_LaterRunStopsBeforeCreation ==
    /\ BackOnlyAtTheEnd
    /\ (LaterRun /\ RlDone) =>
           /\ exit = 1
           /\ \A c \in Calls : ~IsReleaseCall(c)
           /\ out = (IF last.before # "develop" THEN "Must be on develop branch"
                     ELSE IF last.tree0 # "clean" THEN "Working tree is not clean"
                     ELSE "Release branch already exists")

\* C29 witness: the first run stopped at "No publishable changes" with the
\* release branch created; the second, started with that branch still
\* checked out, has stopped at "Must be on develop branch".
C29_Witness ==
    /\ LaterRun /\ RlDone
    /\ prev.result = "No publishable changes" /\ prev.before = "develop"
    /\ last.before = ReleaseBranch /\ current = ReleaseBranch
    /\ out = "Must be on develop branch" /\ exit = 1

=============================================================================
